---------------------------- MODULE Spec2Model ----------------------------
(***************************************************************************)
(* A model of the sandboxed Python execution service (code-interpreter):   *)
(* the request coordinator (app/api/routes.py), the container backend      *)
(* (app/services/executor_docker.py), the cluster backend                  *)
(* (app/services/executor_kubernetes.py) and the output truncation of      *)
(* app/services/executor_base.py.                                          *)
(*                                                                         *)
(* Specifications:                                                         *)
(*   Spec          one execution, from the request to the response (run)   *)
(*                 or to the end of the event stream (run_stream), with    *)
(*                 the sandbox runtime and the user program as the         *)
(*                 environment;                                            *)
(*   SpecExecute   POST /execute with every request path;                  *)
(*   SpecTruncate  BaseExecutor.truncate_output applied to byte streams;   *)
(*   SpecStream    one _StreamTracker fed a byte stream read by read;      *)
(*   SpecWrap      a program run as it is and under the wrapper of         *)
(*                 wrap_last_line_interactive;                             *)
(*   SpecStore     the File Store (app/services/file_storage.py);          *)
(*   SpecSweep     cleanup_expired_files applied to a storage directory;   *)
(*   SpecConcurrent  get, delete, sweep and upload interleaved statement   *)
(*                 by statement.                                           *)
(***************************************************************************)
EXTENDS Integers, Sequences, FiniteSets, TLC

VARIABLES
    \* ---- truncate_output (SpecTruncate) ----
    tStream,      \* the captured byte stream handed to truncate_output
    tMax,         \* max_bytes
    tOut,         \* the returned text (a sequence of code points)
    tDone,        \* truncate_output has returned
    \* ---- __main__.py under the interpreter (SpecWrap) ----
    script,       \* the user's code and last_line_interactive
    py,           \* the interpreter: position, globals, stdout, exit code
    \* ---- one _StreamTracker (SpecStream) ----
    bytes_sent,   \* _StreamTracker.bytes_sent
    decoderBuf,   \* the bytes the incremental decoder holds back
    chunkText,    \* the data of the chunks emitted so far, concatenated
    flushed,      \* flush() has been called
    \* ---- the File Store (SpecStore) ----
    wall,         \* time.time()
    puts,         \* save_file calls: their arguments, position and result
    fsLog,        \* the last completed get / delete / list / sweep
    getCall,      \* a get_file call running statement by statement
    delCall,      \* a delete_file call running statement by statement
    sweepCall,    \* a cleanup_expired_files call running statement by statement
    \* ---- one execution (Spec) ----
    backend,          \* "docker" | "kubernetes" (EXECUTOR_BACKEND)
    mode,             \* "run" (POST /execute) | "stream" (execute_python_streaming)
    req,              \* the request: timeout_ms, files, stdin
    readsStdin,       \* whether the user program ever reads its stdin
    awaitsEof,        \* whether it reads its stdin to end-of-input before it exits
    stdinEof,         \* whether end-of-input has been signalled on its stdin
    store,            \* the File Store's storage_dir: file name -> file
    pc,               \* where the call is
    staged_files,     \* routes: the (path, content) list handed to the backend
    input_files_map,  \* routes: request path -> content
    response,         \* the HTTP response of execute
    container_name,   \* the name of this call's container / pod
    launch,           \* "not_attempted" | "failed" | "ok"
    released,         \* the names docker kill / delete pod was invoked with
    teardownError,    \* what the teardown attempt raised: "none" | "api" | "other"
    workspace,        \* /workspace in the sandbox: path segments -> bytes
    written,          \* the paths the user program wrote
    progState,        \* "none" | "running" | "exited" | "killed"
    exitStatus,       \* the status the user program exited with
    clock,            \* wall clock
    deadline,         \* end of the timeout, Unset before supervision
    exitClock,        \* when the program exited by itself, Unset otherwise
    ranOut,           \* the deadline passed with the program still running
    errChan,          \* cluster: the unread message of the exec error channel
    streamOpen,       \* cluster: the exec stream is open
    pendingOut,       \* output streams with unread data
    pipeOpen,         \* output pipes the program side has not closed
    selMap,           \* container streaming: the registered pipes
    decoderPending,   \* container streaming: decoders holding a partial sequence
    events,           \* container streaming: the events yielded so far
    atYield,          \* container streaming: suspended at a yield of a chunk
    captured,         \* number of output chunks captured
    timed_out,        \* the call's timed_out
    exit_code,        \* the call's exit_code
    pkillSent,        \* pkill -9 python was run in the sandbox
    snapshot,         \* the workspace snapshot
    snapshotStep,     \* "none" | "ok" | "failed"
    pending,          \* the exception propagating through the finally block
    input_path,       \* the path string given to the validator
    validated,        \* what validating input_path gave
    revalidated,      \* what validating the returned path gave
    archive,          \* the members _create_tar_archive added, in order
    polls,            \* cluster: the reads of the pod's phase made so far
    phase,            \* cluster: the phase the last read gave, "none" before
    tar_archive,      \* _create_tar_archive: "none" | "built" | "ValueError"
    tar_exit_code,    \* the status of tar -x, NoCode while there is none
    outcome           \* how the backend call ended

truncVars == <<tStream, tMax, tOut, tDone>>
wrapVars == <<script, py>>
pathVars == <<input_path, validated, revalidated, archive>>
trackVars == <<bytes_sent, decoderBuf, chunkText, flushed>>
stepVars == <<getCall, delCall, sweepCall>>
fsVars == <<wall, puts, fsLog, stepVars>>

reqVars == <<backend, mode, req, readsStdin, awaitsEof>>
routeVars == <<store, staged_files, input_files_map, response>>
sandboxVars == <<container_name, launch, released, teardownError>>
progVars == <<workspace, written, progState, exitStatus, exitClock>>
timeVars == <<clock, deadline, ranOut>>
chanVars == <<errChan, streamOpen, pendingOut, pipeOpen>>
streamVars == <<selMap, decoderPending, events, atYield>>
callVars == <<captured, timed_out, exit_code, pkillSent, snapshot, snapshotStep,
              pending, outcome>>

stageVars == <<polls, phase, tar_archive, tar_exit_code, stdinEof>>
execVars == <<reqVars, routeVars, sandboxVars, progVars, timeVars, chanVars,
              streamVars, callVars, stageVars, pc>>

(***************************************************************************)
(* Bounds of the model.                                                    *)
(***************************************************************************)
MaxStreamLen == 36      \* longest captured stream
MaxCap == 35            \* largest max_output_bytes
MaxPatLen == 2          \* streams are prefixes of a repeated pattern this long
MaxPathLen == 3         \* longest request path, in atoms
MaxChunks == 1          \* most output chunks a program writes
MaxWrites == 1          \* most files a program writes
max_exec_timeout_ms == 2  \* the setting, in clock ticks
MaxTrackLen == 5        \* longest stream fed to a tracker
MaxTrackCap == 4        \* largest max_output_bytes of a tracker
MaxRead == 2            \* most bytes one read returns
MaxPuts == 2            \* most uploads
MaxStatements == 3      \* most top-level statements of a program
MaxWall == 2            \* the wall clock stops here
file_ttl_sec == 1       \* the setting, in ticks of the wall clock

NoValue == "None"
Unset == 0 - 1            \* no deadline / no exit yet
NoCode == 0 - 1           \* exit_code None

Max(a, b) == IF a >= b THEN a ELSE b
Min(a, b) == IF a <= b THEN a ELSE b

(***************************************************************************)
(* Bytes and text.  A byte is a number 0..255; a text is a sequence of     *)
(* code points.  The byte alphabet has an ASCII byte ('a'), the lead and    *)
(* the continuation byte of a two-byte sequence (0xC3 0xA9 = U+00E9) and a  *)
(* byte that is never valid in UTF-8 (0xFF).                                *)
(***************************************************************************)
ByteAlphabet == {97, 195, 169, 255}

ReplacementChar == 65533

IsLead2(c) == c >= 194 /\ c <= 223
IsCont(c) == c >= 128 /\ c <= 191

\* bytes.decode("utf-8", errors="replace") on one- and two-byte sequences:
\* every byte that starts no valid sequence becomes one U+FFFD.
RECURSIVE DecodeFrom(_, _)
DecodeFrom(b, i) ==
    IF i > Len(b) THEN <<>>
    ELSE IF b[i] < 128 THEN <<b[i]>> \o DecodeFrom(b, i + 1)
    ELSE IF IsLead2(b[i]) /\ i < Len(b) /\ IsCont(b[i + 1])
         THEN <<(b[i] - 192) * 64 + (b[i + 1] - 128)>> \o DecodeFrom(b, i + 2)
    ELSE <<ReplacementChar>> \o DecodeFrom(b, i + 1)

decode_replace(b) == DecodeFrom(b, 1)

\* The number of bytes of a text once encoded as UTF-8 again.
RECURSIVE Utf8Len(_)
Utf8Len(t) ==
    IF t = <<>> THEN 0
    ELSE (IF Head(t) < 128 THEN 1 ELSE IF Head(t) < 2048 THEN 2 ELSE 3)
         + Utf8Len(Tail(t))

\* b"\n...[truncated]"
suffix == <<10, 46, 46, 46, 91, 116, 114, 117, 110, 99, 97, 116, 101, 100, 93>>

TruncateReserve == 32

Take(s, n) == SubSeq(s, 1, Min(n, Len(s)))
LastN(s, n) == SubSeq(s, Len(s) - n + 1, Len(s))

truncate_output_unreserved(stream, max_bytes) ==
    IF Len(stream) <= max_bytes
    THEN decode_replace(stream)
    ELSE decode_replace(Take(stream, max_bytes) \o suffix)

truncate_output(stream, max_bytes) ==
    IF Len(stream) <= max_bytes
    THEN decode_replace(stream)
    ELSE LET head == Take(stream, Max(0, max_bytes - TruncateReserve))
         IN  decode_replace(head \o suffix)

(***************************************************************************)
(* _StreamTracker: the incremental decoder of one output stream and its    *)
(* byte counter.  A tracker is [bytes_sent, buf]; a call gives the tracker *)
(* after it and the text of the chunk (empty: no chunk).                   *)
(***************************************************************************)
\* codecs incremental utf-8 decoder, errors="replace": decode(input, final).
\* An incomplete sequence at the end is held back unless final.
IncrementalDecode_no_hold(input, final) ==
    [text |-> decode_replace(input), buf |-> <<>>]

IncrementalDecode(input, final) ==
    IF ~final /\ input # <<>> /\ IsLead2(input[Len(input)])
    THEN [text |-> decode_replace(SubSeq(input, 1, Len(input) - 1)),
          buf |-> <<input[Len(input)]>>]
    ELSE [text |-> decode_replace(input), buf |-> <<>>]

decode_chunk_unsliced(sent, buf, max_bytes, data) ==
    IF sent < max_bytes
    THEN [bytes_sent |-> sent + Len(data),
          buf |-> IncrementalDecode(buf \o data, FALSE).buf,
          text |-> IncrementalDecode(buf \o data, FALSE).text]
    ELSE [bytes_sent |-> sent + Len(data), buf |-> buf, text |-> <<>>]

\* _StreamTracker.decode_chunk
decode_chunk(sent, buf, max_bytes, data) ==
    IF sent < max_bytes
    THEN LET allowed == max_bytes - sent
             out == IncrementalDecode(buf \o Take(data, allowed), FALSE)
         IN  [bytes_sent |-> sent + Len(data), buf |-> out.buf, text |-> out.text]
    ELSE [bytes_sent |-> sent + Len(data), buf |-> buf, text |-> <<>>]

\* _StreamTracker.flush
flush(buf) == IncrementalDecode(buf, TRUE).text

(***************************************************************************)
(* Paths.  A path string is a sequence of atoms: the characters "/", "."   *)
(* and "a", and the literal "__main__.py" (the reserved entrypoint name,   *)
(* which holds no "/" and does not begin with "." or "/").  The second     *)
(* input of a request uses the name "b", which no first input can spell.   *)
(***************************************************************************)
Atoms == {"/", ".", "a", "__main__.py"}

PathStrings == UNION {[1..n -> Atoms] : n \in 0..MaxPathLen}

RECURSIVE SplitFrom(_, _, _)
SplitFrom(str, i, cur) ==
    IF i > Len(str) THEN <<cur>>
    ELSE IF str[i] = "/" THEN <<cur>> \o SplitFrom(str, i + 1, <<>>)
    ELSE SplitFrom(str, i + 1, Append(cur, str[i]))

is_absolute(str) == Len(str) > 0 /\ str[1] = "/"

KeepPart_keeps_dot(part) == part # <<>>
KeepPart(part) == part # <<>> /\ part # <<".">>

\* Path(path_str).parts of a relative path: empty and "." segments are dropped.
parts(str) == SelectSeq(SplitFrom(str, 1, <<>>), KeepPart)

HasDotDot(ps) == \E i \in 1..Len(ps) : ps[i] = <<".", ".">>

validate_relative_path_keeps_dotdot(path_str) ==
    IF is_absolute(path_str) THEN [ok |-> FALSE, path |-> <<>>]
    ELSE IF parts(path_str) = <<>> THEN [ok |-> FALSE, path |-> <<>>]
    ELSE [ok |-> TRUE, path |-> parts(path_str)]

\* [ok |-> FALSE] stands for ValueError.
validate_relative_path(path_str) ==
    IF is_absolute(path_str) THEN [ok |-> FALSE, path |-> <<>>]
    ELSE IF HasDotDot(parts(path_str)) THEN [ok |-> FALSE, path |-> <<>>]
    ELSE IF parts(path_str) = <<>> THEN [ok |-> FALSE, path |-> <<>>]
    ELSE [ok |-> TRUE, path |-> parts(path_str)]

EntryPoint == <<"__main__.py">>

RECURSIVE as_posix(_)
as_posix(ps) ==
    IF ps = <<>> THEN <<>>
    ELSE IF Len(ps) = 1 THEN ps[1]
    ELSE ps[1] \o <<"/">> \o as_posix(Tail(ps))

\* The staged inputs the archive carries, [ok |-> FALSE] for ValueError: every
\* path is validated and must differ from the entrypoint's.
create_tar_archive(files) ==
    IF \E i \in 1..Len(files) :
          \/ ~validate_relative_path(files[i][1]).ok
          \/ validate_relative_path(files[i][1]).path = <<EntryPoint>>
    THEN [ok |-> FALSE, files |-> <<>>]
    ELSE [ok |-> TRUE,
          files |-> [i \in 1..Len(files) |->
                        <<validate_relative_path(files[i][1]).path, files[i][2]>>]]

EmptyFn == [x \in {} |-> x]

\* str.encode("utf-8")
RECURSIVE encode_utf8(_)
encode_utf8(t) ==
    IF t = <<>> THEN <<>>
    ELSE (IF Head(t) < 128 THEN <<Head(t)>>
          ELSE IF Head(t) < 2048 THEN <<192 + (Head(t) \div 64), 128 + (Head(t) % 64)>>
          ELSE <<224 + (Head(t) \div 4096), 128 + ((Head(t) \div 64) % 64),
                 128 + (Head(t) % 64)>>)
         \o encode_utf8(Tail(t))

\* The bytes of a file content: "B1" is ASCII, "B2" is not valid UTF-8, "J" is
\* the JSON text of a metadata file.
BytesOf(content) ==
    CASE content = "B1" -> <<97>>
      [] content = "B2" -> <<255, 169>>
      [] OTHER -> <<123, 97, 97, 97, 97, 97, 97, 97, 125>>

ContentOf(data) ==
    IF \E c \in {"B1", "B2", "J"} : BytesOf(c) = data
    THEN CHOOSE c \in {"B1", "B2", "J"} : BytesOf(c) = data
    ELSE "corrupt"

\* tar_buffer.getvalue(): the members of the archive with their data as bytes.
getvalue(members) ==
    [i \in 1..Len(members) |-> <<members[i][1], BytesOf(members[i][2])>>]

write_stdin_as_text(data) ==
    [i \in 1..Len(data) |-> <<data[i][1], encode_utf8(decode_replace(data[i][2]))>>]

\* resp.write_stdin(tar_archive): the archive is a bytes object and goes out
\* as it is.
write_stdin(data) == data

\* What tar -x reads from its stdin, as members.
ReadArchive(data) ==
    [i \in 1..Len(data) |-> <<data[i][1], ContentOf(data[i][2])>>]

\* tar -x -C /workspace: the archive's files in order, a later one replacing
\* an earlier one of the same name.
RECURSIVE Extract(_, _)
Extract(members, ws) ==
    IF members = <<>> THEN ws
    ELSE Extract(Tail(members),
                 [q \in DOMAIN ws \cup {Head(members)[1]} |->
                     IF q = Head(members)[1] THEN Head(members)[2] ELSE ws[q]])

(***************************************************************************)
(* The snapshot: tar -c --exclude=__main__.py -C /workspace . and the      *)
(* parse of its members.                                                   *)
(***************************************************************************)
\* --exclude matches a member whose name has a component __main__.py.
Excluded(q) == \E i \in 1..Len(q) : q[i] = EntryPoint

\* The directories of the workspace: the proper prefixes of its files' paths.
DirsOf(ws) == UNION {{SubSeq(q, 1, n) : n \in 1..(Len(q) - 1)} : q \in DOMAIN ws}

\* The name tar gives a member: "./" and the path.
MemberName(q) == <<".", "/">> \o as_posix(q)

\* str.lstrip("./"): every leading "." and "/" character goes.
RECURSIVE lstrip_dot_slash(_)
lstrip_dot_slash(str) ==
    IF str # <<>> /\ Head(str) \in {".", "/"} THEN lstrip_dot_slash(Tail(str))
    ELSE str

RECURSIVE SetToSeq(_)
SetToSeq(S) ==
    IF S = {} THEN <<>>
    ELSE LET x == CHOOSE y \in S : TRUE IN <<x>> \o SetToSeq(S \ {x})

\* The WorkspaceEntry tuple of a successful snapshot (members in the order
\* tar lists them, which the directory decides).
extract_workspace_snapshot(ws) ==
    LET dirEntries == {[path |-> lstrip_dot_slash(MemberName(d)), kind |-> "directory",
                        content |-> NoValue] : d \in {d \in DirsOf(ws) : ~Excluded(d)}}
        fileEntries == {[path |-> lstrip_dot_slash(MemberName(q)), kind |-> "file",
                         content |-> ws[q]] : q \in {q \in DOMAIN ws : ~Excluded(q)}}
    IN  SetToSeq(dirEntries) \o SetToSeq(fileEntries)

Put(st, id, content) == [x \in DOMAIN st \cup {id} |-> IF x = id THEN content ELSE st[x]]

(***************************************************************************)
(* The File Store (file_storage.py).  storage_dir is a function from file  *)
(* names to files.  An identifier, like a file name, is a string: <<u, k>> *)
(* stands for the string u followed by k times ".meta.json".  A file is    *)
(* its bytes and, when the bytes are the JSON text of a FileMetadata, the  *)
(* metadata they parse to.  Bytes are named: "B1", "B2", and "J" for a     *)
(* JSON text.                                                              *)
(***************************************************************************)
NoMeta == [file_id |-> <<"none", 0>>, filename |-> <<>>, size_bytes |-> 0 - 1,
           upload_time |-> 0 - 1]

\* len(content)
SizeOf(content) == CASE content = "B1" -> 1 [] content = "B2" -> 2 [] OTHER -> 9

\* _get_file_path / _get_metadata_path
get_file_path(file_id) == file_id
get_metadata_path(file_id) == <<file_id[1], file_id[2] + 1>>

Remove(st, names) == [x \in DOMAIN st \ names |-> st[x]]

\* save_file, its two writes: the content, then the metadata.
write_bytes(st, file_id, content, now) ==
    Put(st, get_file_path(file_id), [content |-> content, json |-> NoMeta, st_mtime |-> now])

write_metadata(st, file_id, content, filename, now) ==
    Put(st, get_metadata_path(file_id),
        [content |-> "J", st_mtime |-> now,
         json |-> [file_id |-> file_id, filename |-> filename,
                   size_bytes |-> SizeOf(content), upload_time |-> now]])

save_file(st, file_id, content, filename, now) ==
    write_metadata(write_bytes(st, file_id, content, now), file_id, content, filename, now)

\* get_file: [found |-> FALSE] stands for FileNotFoundError.
get_file(st, file_id) ==
    IF get_file_path(file_id) \notin DOMAIN st
    THEN [found |-> FALSE, content |-> "none", metadata |-> NoMeta]
    ELSE [found |-> TRUE,
          content |-> st[get_file_path(file_id)].content,
          metadata |->
             IF get_metadata_path(file_id) \in DOMAIN st
             THEN st[get_metadata_path(file_id)].json
             ELSE [file_id |-> file_id, filename |-> <<"unknown">>,
                   size_bytes |-> SizeOf(st[get_file_path(file_id)].content),
                   upload_time |-> st[get_file_path(file_id)].st_mtime]]

\* delete_file: [existed, store]
delete_file(st, file_id) ==
    [existed |-> get_file_path(file_id) \in DOMAIN st,
     store |-> Remove(st, {get_file_path(file_id), get_metadata_path(file_id)})]

\* glob("*.meta.json")
MetadataPaths(st) == {n \in DOMAIN st : n[2] >= 1}

\* list_files: the metadata every *.meta.json file parses to.
list_files(st) == {st[n].json : n \in {m \in MetadataPaths(st) : st[m].json # NoMeta}}

Expired_inclusive(st, max_age_sec, now) ==
    {n \in MetadataPaths(st) :
        st[n].json # NoMeta /\ now - st[n].json.upload_time >= max_age_sec}

\* cleanup_expired_files: the metadata files older than max_age_sec, and
\* [count, store] after delete_file of each one's file_id.
Expired(st, max_age_sec, now) ==
    {n \in MetadataPaths(st) :
        st[n].json # NoMeta /\ now - st[n].json.upload_time > max_age_sec}

cleanup_expired_files(st, max_age_sec, now) ==
    LET ids == {st[n].json.file_id : n \in Expired(st, max_age_sec, now)}
    IN  [count |-> Cardinality({id \in ids : delete_file(st, id).existed}),
         store |-> Remove(st, {get_file_path(id) : id \in ids}
                              \cup {get_metadata_path(id) : id \in ids})]

\* delete_file, statement by statement.  A call is [pc, id, existed, result];
\* result is "returned" or the exception the call raised.
NoDelete == [pc |-> "idle", id |-> <<"none", 0>>, existed |-> FALSE, result |-> "none"]

delete_file_call(file_id) == [NoDelete EXCEPT !.pc = "existed", !.id = file_id]

delete_file_step(c, st) ==
    LET file_path == get_file_path(c.id)
        metadata_path == get_metadata_path(c.id)
    IN  CASE c.pc = "existed" ->
               [call |-> [c EXCEPT !.existed = file_path \in DOMAIN st, !.pc = "file_exists"],
                store |-> st]
          [] c.pc = "file_exists" ->
               [call |-> [c EXCEPT !.pc = IF file_path \in DOMAIN st THEN "unlink_file"
                                          ELSE "metadata_exists"],
                store |-> st]
          [] c.pc = "unlink_file" ->
               IF file_path \in DOMAIN st
               THEN [call |-> [c EXCEPT !.pc = "metadata_exists"],
                     store |-> Remove(st, {file_path})]
               ELSE [call |-> [c EXCEPT !.pc = "done", !.result = "FileNotFoundError"],
                     store |-> st]
          [] c.pc = "metadata_exists" ->
               [call |-> IF metadata_path \in DOMAIN st
                         THEN [c EXCEPT !.pc = "unlink_metadata"]
                         ELSE [c EXCEPT !.pc = "done", !.result = "returned"],
                store |-> st]
          [] c.pc = "unlink_metadata" ->
               IF metadata_path \in DOMAIN st
               THEN [call |-> [c EXCEPT !.pc = "done", !.result = "returned"],
                     store |-> Remove(st, {metadata_path})]
               ELSE [call |-> [c EXCEPT !.pc = "done", !.result = "FileNotFoundError"],
                     store |-> st]

\* get_file, statement by statement.
NoGet == [pc |-> "idle", id |-> <<"none", 0>>, content |-> "none", metadata |-> NoMeta,
          result |-> "none"]

\* cleanup_expired_files, statement by statement: the paths of the glob still
\* to visit, the one being visited and the delete_file call made for it.
NoSweep == [pc |-> "idle", current_time |-> 0, paths |-> {}, metadata_path |-> <<"none", 0>>,
            del |-> NoDelete, deleted_count |-> 0, caught |-> {}, result |-> "none"]

SweepCaught_narrow == {"JSONDecodeError", "TypeError"}

\* The except clause of the loop body.
SweepCaught == {"JSONDecodeError", "TypeError", "FileNotFoundError"}

\* The identifiers that have a record: the content files save_file wrote.
Records(st) == {n \in DOMAIN st : n[2] = 0}

(***************************************************************************)
(* The Request Coordinator's helpers (routes.py).                          *)
(***************************************************************************)
GenIds == <<<<"g1", 0>>, <<"g2", 0>>, <<"g3", 0>>, <<"g4", 0>>>>

FreshId_reissued(st) == <<"f1", 0>>

\* uuid4: an identifier no record has.
FreshId(st) == GenIds[CHOOSE k \in 1..Len(GenIds) :
                        /\ GenIds[k] \notin DOMAIN st
                        /\ \A j \in 1..(k - 1) : GenIds[j] \in DOMAIN st]

Unchanged_path_only(entry, map) == entry.path \in DOMAIN map
Unchanged(entry, map) == entry.path \in DOMAIN map /\ entry.content = map[entry.path]

\* _save_workspace_files: [files, store] after the entries from index i on.
RECURSIVE save_workspace_files(_, _, _, _)
save_workspace_files(entries, map, st, acc) ==
    IF entries = <<>> THEN [files |-> acc, store |-> st]
    ELSE LET e == Head(entries) IN
         IF e.kind = "directory" \/ Unchanged(e, map)
         THEN save_workspace_files(Tail(entries), map, st, acc)
         ELSE save_workspace_files(
                 Tail(entries), map, save_file(st, FreshId(st), e.content, e.path, 0),
                 Append(acc, [path |-> e.path, kind |-> e.kind, file_id |-> FreshId(st)]))

\* _stage_request_files: the index of the first reference whose file-id
\* get_file does not find, 0 when every one resolves.
FirstMissing(files, st) ==
    IF \A i \in 1..Len(files) : get_file(st, files[i].file_id).found THEN 0
    ELSE CHOOSE i \in 1..Len(files) :
            /\ ~get_file(st, files[i].file_id).found
            /\ \A j \in 1..(i - 1) : get_file(st, files[j].file_id).found

\* The detail of the 404: the file-id and the path of that reference.
MissingDetail(files, st) ==
    [file_id |-> files[FirstMissing(files, st)].file_id,
     path |-> files[FirstMissing(files, st)].path]

RECURSIVE BuildMap(_, _, _)
BuildMap(files, st, map) ==
    IF files = <<>> THEN map
    ELSE BuildMap(Tail(files), st,
                  [x \in DOMAIN map \cup {Head(files).path} |->
                      IF x = Head(files).path THEN get_file(st, Head(files).file_id).content
                      ELSE map[x]])

(***************************************************************************)
(* One execution.  Init is a request as the service receives it.           *)
(***************************************************************************)
Bytes == {"B1", "B2"}
ExitCodes == {0, 2}
OtherPath == <<"b">>
OutputPath == <<<<"o">>>>
SandboxName == "code-exec-1"
\* Two uploads made before the request.
UploadedStore ==
    save_file(save_file(EmptyFn, <<"f1", 0>>, "B1", <<"n1">>, 0), <<"f2", 0>>, "B2", <<"n2">>, 0)

NoResult == [stdout |-> 0, exit_code |-> NoCode, timed_out |-> FALSE, files |-> <<>>]
NoOutcome == [kind |-> "none", error |-> "none", result |-> NoResult]
NoDetail == [file_id |-> <<"none", 0>>, path |-> <<>>]
NoResponse == [status |-> 0, error |-> "none", detail |-> NoDetail, result |-> NoResult,
               files |-> <<>>]

\* A second reference: none, an upload, an identifier never issued, or the
\* name of an upload's metadata file.
SecondRefs == {<<>>, <<[path |-> OtherPath, file_id |-> <<"f2", 0>>]>>,
               <<[path |-> OtherPath, file_id |-> <<"f0", 0>>]>>,
               <<[path |-> OtherPath, file_id |-> <<"f2", 1>>]>>}

Requests(paths) ==
    {[timeout_ms |-> t, files |-> <<[path |-> p, file_id |-> <<"f1", 0>>]>> \o second, stdin |-> i] :
        t \in 1..(max_exec_timeout_ms + 1), p \in paths, second \in SecondRefs,
        i \in {"none", "large"}}

Resolved(files, st) ==
    [i \in 1..Len(files) |-> <<files[i].path, get_file(st, files[i].file_id).content>>]

\* No sandbox exists and nothing has run.
NothingRun ==
    /\ input_files_map = EmptyFn
    /\ response = NoResponse
    /\ container_name = "none"
    /\ launch = "not_attempted"
    /\ released = {}
    /\ teardownError = "none"
    /\ workspace = EmptyFn
    /\ written = {}
    /\ progState = "none"
    /\ exitStatus = NoCode
    /\ clock = 0
    /\ deadline = Unset
    /\ exitClock = Unset
    /\ ranOut = FALSE
    /\ errChan = "none"
    /\ streamOpen = FALSE
    /\ pendingOut = {}
    /\ pipeOpen = {}
    /\ selMap = {}
    /\ decoderPending = {}
    /\ events = <<>>
    /\ atYield = FALSE
    /\ captured = 0
    /\ timed_out = FALSE
    /\ exit_code = NoCode
    /\ pkillSent = FALSE
    /\ snapshot = <<>>
    /\ snapshotStep = "none"
    /\ pending = "none"
    /\ polls = 0
    /\ phase = "none"
    /\ tar_archive = "none"
    /\ tar_exit_code = NoCode
    /\ stdinEof = FALSE
    /\ outcome = NoOutcome

ExecInit(paths) ==
    /\ backend \in {"docker", "kubernetes"}
    /\ mode \in {"run", "stream"}
    /\ req \in Requests(paths)
    /\ readsStdin \in BOOLEAN
    /\ awaitsEof \in BOOLEAN
    /\ awaitsEof => readsStdin
    \* the inputs that make no difference to the operation are fixed
    /\ mode = "stream" => /\ req.timeout_ms <= max_exec_timeout_ms
                          /\ Len(req.files) = 1
    /\ mode = "run" => req.stdin = "none" /\ readsStdin
    /\ req.stdin # "large" => readsStdin
    /\ store = UploadedStore
    /\ pc = IF mode = "run" THEN "validate_timeout" ELSE "launch"
    /\ staged_files = IF mode = "run" THEN <<>> ELSE Resolved(req.files, store)
    /\ NothingRun

(***************************************************************************)
(* routes.execute, up to the call of the backend.                          *)
(***************************************************************************)
ValidateTimeout_inclusive ==
    /\ pc = "validate_timeout"
    /\ IF req.timeout_ms >= max_exec_timeout_ms
       THEN /\ response' = [NoResponse EXCEPT !.status = 422, !.error = "InvalidTimeout"]
            /\ pc' = "done"
       ELSE /\ pc' = "stage_request_files"
            /\ UNCHANGED response
    /\ UNCHANGED <<reqVars, store, staged_files, input_files_map, sandboxVars, progVars,
                   timeVars, chanVars, streamVars, callVars, truncVars, wrapVars, pathVars, trackVars, fsVars, stageVars>>

\* _validate_timeout, the first statement of execute.
ValidateTimeout ==
    /\ pc = "validate_timeout"
    /\ IF req.timeout_ms > max_exec_timeout_ms
       THEN /\ response' = [NoResponse EXCEPT !.status = 422, !.error = "InvalidTimeout"]
            /\ pc' = "done"
       ELSE /\ pc' = "stage_request_files"
            /\ UNCHANGED response
    /\ UNCHANGED <<reqVars, store, staged_files, input_files_map, sandboxVars, progVars,
                   timeVars, chanVars, streamVars, callVars, truncVars, wrapVars, pathVars, trackVars, fsVars, stageVars>>

StageRequestFiles ==
    /\ pc = "stage_request_files"
    /\ IF FirstMissing(req.files, store) # 0
       THEN /\ response' = [NoResponse EXCEPT
                               !.status = 404, !.error = "UnknownFile",
                               !.detail = MissingDetail(req.files, store)]
            /\ pc' = "done"
            /\ UNCHANGED <<staged_files, input_files_map>>
       ELSE /\ staged_files' = Resolved(req.files, store)
            /\ input_files_map' = BuildMap(req.files, store, EmptyFn)
            /\ pc' = "launch"
            /\ UNCHANGED response
    /\ UNCHANGED <<reqVars, store, sandboxVars, progVars, timeVars, chanVars, streamVars,
                   callVars, truncVars, wrapVars, pathVars, trackVars, fsVars, stageVars>>

(***************************************************************************)
(* How a backend call ends.                                                *)
(***************************************************************************)
Result == [stdout |-> captured, exit_code |-> IF timed_out THEN NoCode ELSE exit_code,
           timed_out |-> timed_out, files |-> snapshot]

\* The exception leaves execute_python / the generator.
Raised(err) ==
    /\ outcome' = [kind |-> "raised", error |-> err, result |-> NoResult]
    /\ pc' = IF mode = "run" THEN "route_except" ELSE "done"

\* execute_python returns / the generator reaches its last yield.
Returned ==
    IF mode = "run"
    THEN /\ outcome' = [kind |-> "returned", error |-> "none", result |-> Result]
         /\ pc' = "route_return"
    ELSE /\ pc' = "yield_result"
         /\ UNCHANGED outcome

\* The statuses tar -x ends with: 0, a nonzero code, or none at all (the
\* exec stream closed without a status message).
TarStatuses == {0, 1, NoCode}

\* The extraction is taken as failed: the status is missing or not zero.
ExtractionFailed_missing_passes(status) == status # NoCode /\ status # 0
ExtractionFailed(status) == status = NoCode \/ status # 0

\* An exception inside the try block: the finally block runs next.
Fail(err) ==
    /\ pending' = err
    /\ pc' = "teardown"

(***************************************************************************)
(* The container backend (executor_docker.py).                             *)
(***************************************************************************)
\* _run_in_container: docker run fails; the RuntimeError is raised before
\* the try block, so nothing kills the container name.
DockerLaunchFail ==
    /\ pc = "launch" /\ backend = "docker"
    /\ container_name' = SandboxName
    /\ launch' = "failed"
    /\ Raised("RuntimeError")
    /\ UNCHANGED <<reqVars, routeVars, released, teardownError, progVars, timeVars,
                   chanVars, streamVars, captured, timed_out, exit_code, pkillSent,
                   snapshot, snapshotStep, pending, truncVars, wrapVars, pathVars, trackVars, fsVars, stageVars>>

DockerLaunchOk ==
    /\ pc = "launch" /\ backend = "docker"
    /\ container_name' = SandboxName
    /\ launch' = "ok"
    /\ pc' = "stage"
    /\ UNCHANGED <<reqVars, routeVars, released, teardownError, progVars, timeVars,
                   chanVars, streamVars, callVars, truncVars, wrapVars, pathVars, trackVars, fsVars, stageVars>>

\* _stage_files_in_container: the archive is built (ValueError for a bad
\* path), then extracted in the container (RuntimeError for a nonzero status).
DockerStage ==
    /\ pc = "stage" /\ backend = "docker"
    /\ IF ~create_tar_archive(staged_files).ok
       THEN /\ tar_archive' = "ValueError"
            /\ Fail("ValueError")
            /\ UNCHANGED <<workspace, tar_exit_code>>
       ELSE /\ tar_archive' = "built"
            /\ \E returncode \in TarStatuses \ {NoCode} :
                  /\ tar_exit_code' = returncode
                  /\ IF ExtractionFailed(returncode)
                     THEN Fail("RuntimeError") /\ UNCHANGED workspace
                     ELSE /\ workspace' = Extract(create_tar_archive(staged_files).files,
                                                  workspace)
                          /\ pc' = "popen"
                          /\ UNCHANGED pending
    /\ UNCHANGED <<reqVars, routeVars, sandboxVars, written, progState, exitStatus,
                   exitClock, timeVars, chanVars, streamVars, captured, timed_out,
                   exit_code, pkillSent, snapshot, snapshotStep, outcome, polls, phase, stdinEof,
                   truncVars, wrapVars, pathVars, trackVars, fsVars>>

\* subprocess.Popen of docker exec python; execute_python goes on to
\* communicate(timeout), execute_python_streaming to _write_stdin.
DockerPopen ==
    /\ pc = "popen" /\ backend = "docker"
    /\ \/ /\ progState' = "running"
          /\ pipeOpen' = {"stdout", "stderr"}
          \* communicate writes the input, if any, and closes the pipe
          /\ IF mode = "run"
             THEN pc' = "communicate" /\ deadline' = clock + req.timeout_ms
                  /\ stdinEof' = TRUE
             ELSE pc' = "write_stdin" /\ UNCHANGED <<deadline, stdinEof>>
          /\ UNCHANGED pending
       \/ /\ Fail("OSError")
          /\ UNCHANGED <<progState, pipeOpen, deadline, stdinEof>>
    /\ UNCHANGED <<reqVars, routeVars, sandboxVars, workspace, written, exitStatus,
                   exitClock, clock, ranOut, errChan, streamOpen, pendingOut, streamVars,
                   captured, timed_out, exit_code, pkillSent, snapshot, snapshotStep,
                   outcome, truncVars, wrapVars, pathVars, trackVars, fsVars,
                   polls, phase, tar_archive, tar_exit_code>>

\* communicate returned: the process ended and both pipes were read to EOF.
DockerCommunicate ==
    /\ pc = "communicate"
    /\ progState = "exited"
    /\ timed_out' = FALSE
    /\ exit_code' = exitStatus
    /\ captured' = captured + Cardinality(pendingOut)
    /\ pendingOut' = {}
    /\ pc' = "snapshot"
    /\ UNCHANGED <<reqVars, routeVars, sandboxVars, progVars, timeVars, errChan,
                   streamOpen, pipeOpen, streamVars, pkillSent, snapshot, snapshotStep,
                   pending, outcome, truncVars, wrapVars, pathVars, trackVars, fsVars, stageVars>>

DockerTimeoutExpired_returncode ==
    /\ pc = "communicate"
    /\ clock >= deadline
    /\ timed_out' = FALSE
    /\ pkillSent' = TRUE
    /\ progState' = IF progState = "running" THEN "killed" ELSE progState
    /\ pipeOpen' = {}
    /\ captured' = captured + Cardinality(pendingOut)
    /\ pendingOut' = {}
    /\ pc' = "snapshot"
    /\ UNCHANGED <<reqVars, routeVars, sandboxVars, workspace, written, exitStatus,
                   exitClock, timeVars, errChan, streamOpen, streamVars, exit_code,
                   snapshot, snapshotStep, pending, outcome, truncVars, wrapVars, pathVars, trackVars, fsVars, stageVars>>

\* communicate raised TimeoutExpired: pkill -9 python, proc.kill(), drain.
DockerTimeoutExpired ==
    /\ pc = "communicate"
    /\ clock >= deadline
    /\ timed_out' = TRUE
    /\ pkillSent' = TRUE
    /\ progState' = IF progState = "running" THEN "killed" ELSE progState
    /\ pipeOpen' = {}
    /\ captured' = captured + Cardinality(pendingOut)
    /\ pendingOut' = {}
    /\ pc' = "snapshot"
    /\ UNCHANGED <<reqVars, routeVars, sandboxVars, workspace, written, exitStatus,
                   exitClock, timeVars, errChan, streamOpen, streamVars, exit_code,
                   snapshot, snapshotStep, pending, outcome, truncVars, wrapVars, pathVars, trackVars, fsVars, stageVars>>

\* _extract_workspace_snapshot: any failure yields the empty tuple.
DockerSnapshot ==
    /\ pc = "snapshot" /\ backend = "docker"
    /\ \/ snapshot' = extract_workspace_snapshot(workspace) /\ snapshotStep' = "ok"
       \/ snapshot' = <<>> /\ snapshotStep' = "failed"
    /\ pc' = "teardown"
    /\ UNCHANGED <<reqVars, routeVars, sandboxVars, progVars, timeVars, chanVars,
                   streamVars, captured, timed_out, exit_code, pkillSent, pending,
                   outcome, truncVars, wrapVars, pathVars, trackVars, fsVars, stageVars>>

AfterTeardown_swallows(exc) == Returned

\* What follows the finally block.
AfterTeardown(exc) ==
    IF exc = "none" THEN Returned
    ELSE IF exc = "GeneratorExit"
    THEN outcome' = [kind |-> "closed", error |-> "none", result |-> NoResult] /\ pc' = "done"
    ELSE Raised(exc)

kill_container_skipped(err) ==
    /\ released' = released
    /\ teardownError' = err
    /\ AfterTeardown(pending)

\* _kill_container: docker kill by name, every Exception suppressed.
kill_container(err) ==
    /\ released' = released \cup {container_name}
    /\ teardownError' = err
    /\ AfterTeardown(pending)

DockerTeardown ==
    /\ pc = "teardown" /\ backend = "docker"
    /\ \E err \in {"none", "other"} : kill_container(err)
    /\ progState' = IF progState = "running" THEN "killed" ELSE progState
    /\ UNCHANGED <<reqVars, routeVars, container_name, launch, workspace, written,
                   exitStatus, exitClock, timeVars, chanVars, streamVars, captured,
                   timed_out, exit_code, pkillSent, snapshot, snapshotStep, pending,
                   truncVars, wrapVars, pathVars, trackVars, fsVars, stageVars>>

(***************************************************************************)
(* The container backend, streaming (execute_python_streaming).            *)
(***************************************************************************)
\* _write_stdin: write the stdin bytes and close the pipe.  A write larger
\* than the pipe's buffer returns only once the program has read from it;
\* the deadline is computed after _write_stdin has returned.
DockerWriteStdin ==
    /\ pc = "write_stdin"
    /\ IF req.stdin = "large" /\ ~readsStdin /\ progState = "running"
       THEN pc' = "write_stdin_blocked" /\ UNCHANGED <<deadline, selMap, stdinEof>>
       ELSE /\ pc' = "stream_loop"
            /\ deadline' = clock + req.timeout_ms
            /\ selMap' = {"stdout", "stderr"}
            /\ stdinEof' = TRUE
    /\ UNCHANGED <<reqVars, routeVars, sandboxVars, progVars, clock, ranOut, chanVars,
                   decoderPending, events, atYield, callVars, truncVars, wrapVars, pathVars,
                   trackVars, fsVars, polls, phase, tar_archive, tar_exit_code>>

\* The blocked write ends when the reading end goes away: BrokenPipeError.
DockerWriteStdinBroken ==
    /\ pc = "write_stdin_blocked"
    /\ progState # "running"
    /\ Fail("BrokenPipeError")
    /\ UNCHANGED <<reqVars, routeVars, sandboxVars, progVars, timeVars, chanVars,
                   streamVars, captured, timed_out, exit_code, pkillSent, snapshot,
                   snapshotStep, outcome, truncVars, wrapVars, pathVars, trackVars, fsVars, stageVars>>

\* _stream_process_output, the loop's exits: no pipe registered any more, or
\* the deadline has passed.
StreamLoopEnd ==
    /\ pc = "stream_loop" /\ ~atYield
    /\ selMap = {}
    /\ pc' = "flush"
    /\ UNCHANGED <<reqVars, routeVars, sandboxVars, progVars, timeVars, chanVars,
                   streamVars, callVars, truncVars, wrapVars, pathVars, trackVars, fsVars, stageVars>>

StreamLoopDeadline ==
    /\ pc = "stream_loop" /\ ~atYield
    /\ selMap # {}
    /\ clock >= deadline
    /\ timed_out' = TRUE
    /\ pc' = "flush"
    /\ UNCHANGED <<reqVars, routeVars, sandboxVars, progVars, timeVars, chanVars,
                   streamVars, captured, exit_code, pkillSent, snapshot, snapshotStep,
                   pending, outcome, truncVars, wrapVars, pathVars, trackVars, fsVars, stageVars>>

\* One read of a ready pipe: data is decoded and, when text comes out,
\* yielded as a chunk (the decoder may keep a partial sequence); an empty
\* read unregisters the pipe.
StreamLoopRead ==
    /\ pc = "stream_loop" /\ ~atYield
    /\ selMap # {}
    /\ clock < deadline
    /\ \E st \in selMap :
          \/ /\ st \in pendingOut
             /\ pendingOut' = pendingOut \ {st}
             /\ \E text \in BOOLEAN, partial \in BOOLEAN :
                   /\ (text \/ partial)
                   /\ events' = IF text THEN Append(events, st) ELSE events
                   /\ atYield' = text
                   /\ decoderPending' = IF partial THEN decoderPending \cup {st}
                                        ELSE decoderPending \ {st}
             /\ UNCHANGED selMap
          \/ /\ st \notin pendingOut
             /\ st \notin pipeOpen
             /\ selMap' = selMap \ {st}
             /\ UNCHANGED <<pendingOut, events, atYield, decoderPending>>
    /\ UNCHANGED <<reqVars, routeVars, sandboxVars, progVars, timeVars, errChan,
                   streamOpen, pipeOpen, callVars, pc, truncVars, wrapVars, pathVars, trackVars, fsVars, stageVars>>

\* The consumer asks for the next event / closes the generator at a yield.
ConsumerNext ==
    /\ atYield
    /\ atYield' = FALSE
    /\ UNCHANGED <<reqVars, routeVars, sandboxVars, progVars, timeVars, chanVars,
                   selMap, decoderPending, events, callVars, pc, truncVars, wrapVars, pathVars, trackVars, fsVars, stageVars>>

ConsumerClose_abandons ==
    /\ atYield
    /\ atYield' = FALSE
    /\ outcome' = [kind |-> "closed", error |-> "none", result |-> NoResult]
    /\ pc' = "done"
    /\ UNCHANGED <<reqVars, routeVars, sandboxVars, progVars, timeVars, chanVars,
                   selMap, decoderPending, events, captured, timed_out, exit_code,
                   pkillSent, snapshot, snapshotStep, pending, truncVars, wrapVars,
                   pathVars, trackVars, fsVars, stageVars>>

\* close() on the generator: GeneratorExit is raised at the yield and leaves
\* through the finally blocks.
ConsumerClose ==
    /\ atYield
    /\ atYield' = FALSE
    /\ Fail("GeneratorExit")
    /\ UNCHANGED <<reqVars, routeVars, sandboxVars, progVars, timeVars, chanVars,
                   selMap, decoderPending, events, captured, timed_out, exit_code,
                   pkillSent, snapshot, snapshotStep, outcome, truncVars, wrapVars, pathVars, trackVars, fsVars, stageVars>>

\* The decoders' final flush: each decoder holding bytes yields a chunk,
\* stdout's before stderr's; then the generator returns timed_out.
StreamFlush ==
    /\ pc = "flush" /\ ~atYield
    /\ IF decoderPending = {}
       THEN pc' = "terminate" /\ UNCHANGED <<events, decoderPending, atYield>>
       ELSE LET st == IF "stdout" \in decoderPending THEN "stdout" ELSE "stderr" IN
            /\ events' = Append(events, st)
            /\ decoderPending' = decoderPending \ {st}
            /\ atYield' = TRUE
            /\ UNCHANGED pc
    /\ UNCHANGED <<reqVars, routeVars, sandboxVars, progVars, timeVars, chanVars,
                   selMap, callVars, truncVars, wrapVars, pathVars, trackVars, fsVars, stageVars>>

\* _terminate_process: on timeout pkill -9 python and proc.kill(); then
\* proc.wait(), which has no timeout.
DockerTerminateProcess ==
    /\ pc = "terminate"
    /\ IF timed_out
       THEN /\ pkillSent' = TRUE
            /\ progState' = IF progState = "running" THEN "killed" ELSE progState
            /\ pipeOpen' = {}
            /\ pc' = "snapshot"
       ELSE /\ pc' = IF progState = "running" THEN "proc_wait" ELSE "snapshot"
            /\ UNCHANGED <<pkillSent, progState, pipeOpen>>
    /\ exit_code' = IF progState = "exited" THEN exitStatus ELSE exit_code
    /\ UNCHANGED <<reqVars, routeVars, sandboxVars, workspace, written, exitStatus,
                   exitClock, timeVars, errChan, streamOpen, pendingOut, streamVars,
                   captured, timed_out, snapshot, snapshotStep, pending, outcome,
                   truncVars, wrapVars, pathVars, trackVars, fsVars, stageVars>>

DockerProcWait ==
    /\ pc = "proc_wait"
    /\ progState # "running"
    /\ exit_code' = exitStatus
    /\ pc' = "snapshot"
    /\ UNCHANGED <<reqVars, routeVars, sandboxVars, progVars, timeVars, chanVars,
                   streamVars, captured, timed_out, pkillSent, snapshot, snapshotStep,
                   pending, outcome, truncVars, wrapVars, pathVars, trackVars, fsVars, stageVars>>

\* The last yield: the StreamResult.
YieldResult ==
    /\ pc = "yield_result"
    /\ events' = Append(events, "result")
    /\ outcome' = [kind |-> "returned", error |-> "none", result |-> Result]
    /\ pc' = "done"
    /\ UNCHANGED <<reqVars, routeVars, sandboxVars, progVars, timeVars, chanVars,
                   selMap, decoderPending, atYield, captured, timed_out, exit_code,
                   pkillSent, snapshot, snapshotStep, pending, truncVars, wrapVars, pathVars, trackVars, fsVars, stageVars>>

\* The program closes an output pipe and keeps running.
ProgClosePipe ==
    /\ progState = "running"
    /\ pc = "stream_loop"
    /\ atYield \/ clock < deadline
    /\ \E st \in pipeOpen : pipeOpen' = pipeOpen \ {st}
    /\ UNCHANGED <<reqVars, routeVars, sandboxVars, progVars, timeVars, errChan,
                   streamOpen, pendingOut, streamVars, callVars, pc, truncVars, wrapVars, pathVars, trackVars, fsVars, stageVars>>

(***************************************************************************)
(* The cluster backend (executor_kubernetes.py).                           *)
(***************************************************************************)
\* create_namespaced_pod, inside the try block.
\* BaseExecutor.execute_python_streaming, which KubernetesExecutor inherits.
BaseExecutePythonStreaming ==
    /\ pc = "launch" /\ backend = "kubernetes" /\ mode = "stream"
    /\ Raised("NotImplementedError")
    /\ UNCHANGED <<reqVars, routeVars, sandboxVars, progVars, timeVars, chanVars,
                   streamVars, captured, timed_out, exit_code, pkillSent, snapshot,
                   snapshotStep, pending, truncVars, wrapVars, pathVars, trackVars, fsVars, stageVars>>

K8sCreatePod ==
    /\ pc = "launch" /\ backend = "kubernetes" /\ mode = "run"
    /\ container_name' = SandboxName
    /\ \/ launch' = "ok" /\ pc' = "wait_ready" /\ UNCHANGED pending
       \/ launch' = "failed" /\ Fail("ApiException")
    /\ UNCHANGED <<reqVars, routeVars, released, teardownError, progVars, timeVars,
                   chanVars, streamVars, captured, timed_out, exit_code, pkillSent,
                   snapshot, snapshotStep, outcome, truncVars, wrapVars, pathVars, trackVars, fsVars, stageVars>>

\* range(max_wait * 10): the number of reads of the phase the wait makes at
\* most (300 in the code).
MaxPolls == 2

Phases == {"Pending", "Running", "Failed"}

\* The loop has reads left.
PollsLeft_one_more == polls <= MaxPolls
PollsLeft == polls < MaxPolls

\* One iteration of the readiness wait: read_namespaced_pod gives a phase
\* (or raises); Running breaks the loop, any other phase sleeps and repeats.
K8sWaitReady ==
    /\ pc = "wait_ready"
    /\ PollsLeft
    /\ polls' = polls + 1
    /\ \/ \E ph \in Phases :
             /\ phase' = ph
             /\ pc' = IF ph = "Running" THEN "stage" ELSE "wait_ready"
             /\ UNCHANGED pending
       \/ phase' = "none" /\ Fail("ApiException")
    /\ UNCHANGED <<reqVars, routeVars, sandboxVars, progVars, timeVars, chanVars,
                   streamVars, captured, timed_out, exit_code, pkillSent, snapshot,
                   snapshotStep, outcome, tar_archive, tar_exit_code, stdinEof,
                   truncVars, wrapVars, pathVars, trackVars, fsVars>>

\* The else clause of the loop: no read gave Running.
K8sWaitExhausted ==
    /\ pc = "wait_ready"
    /\ ~PollsLeft
    /\ Fail("RuntimeError")
    /\ UNCHANGED <<reqVars, routeVars, sandboxVars, progVars, timeVars, chanVars,
                   streamVars, captured, timed_out, exit_code, pkillSent, snapshot,
                   snapshotStep, outcome, truncVars, wrapVars, pathVars, trackVars, fsVars, stageVars>>

\* The archive is built (ValueError), written to tar -x, and the command's
\* status read: anything but exit code 0 is a RuntimeError.
K8sStage ==
    /\ pc = "stage" /\ backend = "kubernetes"
    /\ IF ~create_tar_archive(staged_files).ok
       THEN /\ tar_archive' = "ValueError"
            /\ Fail("ValueError")
            /\ UNCHANGED <<workspace, tar_exit_code>>
       ELSE /\ tar_archive' = "built"
            /\ \E status \in TarStatuses :
                  /\ tar_exit_code' = status
                  /\ IF ExtractionFailed(status)
                     THEN Fail("RuntimeError") /\ UNCHANGED workspace
                     ELSE /\ workspace' =
                                Extract(ReadArchive(write_stdin(
                                    getvalue(create_tar_archive(staged_files).files))),
                                        workspace)
                          /\ pc' = "exec"
                          /\ UNCHANGED pending
    /\ UNCHANGED <<reqVars, routeVars, sandboxVars, written, progState, exitStatus,
                   exitClock, timeVars, chanVars, streamVars, captured, timed_out,
                   exit_code, pkillSent, snapshot, snapshotStep, outcome, polls, phase, stdinEof,
                   truncVars, wrapVars, pathVars, trackVars, fsVars>>

\* The exec of python /workspace/__main__.py; stdin is written when given.
K8sExec ==
    /\ pc = "exec"
    \* the stdin text, if any, is written; the stdin channel stays open
    /\ \/ /\ progState' = "running"
          /\ streamOpen' = TRUE
          /\ deadline' = clock + req.timeout_ms
          /\ pc' = "supervise"
          /\ UNCHANGED pending
       \/ /\ Fail("ApiException")
          /\ UNCHANGED <<progState, streamOpen, deadline>>
    /\ UNCHANGED <<reqVars, routeVars, sandboxVars, workspace, written, exitStatus,
                   exitClock, clock, ranOut, errChan, pendingOut, pipeOpen, streamVars,
                   captured, timed_out, exit_code, pkillSent, snapshot, snapshotStep,
                   outcome, truncVars, wrapVars, pathVars, trackVars, fsVars, stageVars>>

\* exec_resp.close() and, after a timeout, the exec of pkill -9 python.
AfterLoop(timedOut) ==
    /\ streamOpen' = FALSE
    /\ pkillSent' = timedOut
    /\ progState' = IF timedOut /\ progState = "running" THEN "killed" ELSE progState
    /\ pc' = "snapshot"

\* The supervision loop ends because the stream is closed.
K8sLoopClosed ==
    /\ pc = "supervise"
    /\ ~streamOpen
    /\ AfterLoop(FALSE)
    /\ UNCHANGED <<reqVars, routeVars, sandboxVars, workspace, written, exitStatus,
                   exitClock, timeVars, errChan, pendingOut, pipeOpen, streamVars,
                   captured, timed_out, exit_code, snapshot, snapshotStep, pending,
                   outcome, truncVars, wrapVars, pathVars, trackVars, fsVars, stageVars>>

\* ... or because the deadline has passed.
K8sLoopDeadline ==
    /\ pc = "supervise"
    /\ streamOpen
    /\ clock >= deadline
    /\ timed_out' = TRUE
    /\ AfterLoop(TRUE)
    /\ UNCHANGED <<reqVars, routeVars, sandboxVars, workspace, written, exitStatus,
                   exitClock, timeVars, errChan, pendingOut, pipeOpen, streamVars,
                   captured, exit_code, snapshot, snapshotStep, pending, outcome,
                   truncVars, wrapVars, pathVars, trackVars, fsVars, stageVars>>

\* The exit code the loop takes from an error-channel message, NoCode when it
\* takes none.
StatusExitCode(msg, code) ==
    IF msg = "Success" THEN 0
    ELSE IF msg = "NonZeroExitCode" THEN code
    ELSE IF msg = "NonZeroNoExitCode" THEN 1
    ELSE NoCode

\* A message with a "status" key ends the loop.
StatusBreaks(msg) == msg \in {"Success", "NonZeroExitCode", "NonZeroNoExitCode", "Failure"}

\* One iteration: update, read stdout and stderr, read the error channel.
K8sLoopPoll ==
    /\ pc = "supervise"
    /\ streamOpen
    /\ clock < deadline
    /\ pendingOut # {} \/ errChan # "none"
    /\ captured' = captured + Cardinality(pendingOut)
    /\ pendingOut' = {}
    /\ errChan' = "none"
    /\ IF errChan # "none" /\ StatusBreaks(errChan)
       THEN /\ exit_code' = StatusExitCode(errChan, exitStatus)
            /\ AfterLoop(FALSE)
       ELSE UNCHANGED <<exit_code, streamOpen, pkillSent, progState, pc>>
    /\ UNCHANGED <<reqVars, routeVars, sandboxVars, workspace, written, exitStatus,
                   exitClock, timeVars, pipeOpen, streamVars, timed_out, snapshot,
                   snapshotStep, pending, outcome, truncVars, wrapVars, pathVars, trackVars, fsVars, stageVars>>

\* The server closes the exec stream once the command has ended; the
\* connection may also drop while the command runs.  The loop tests the
\* stream before the deadline, so a drop counts as seen before the expiry.
StreamClose ==
    /\ pc = "supervise"
    /\ streamOpen
    /\ clock < deadline
    /\ streamOpen' = FALSE
    /\ UNCHANGED <<reqVars, routeVars, sandboxVars, progVars, timeVars, errChan,
                   pendingOut, pipeOpen, streamVars, callVars, pc, truncVars, wrapVars, pathVars, trackVars, fsVars, stageVars>>

K8sSnapshot ==
    /\ pc = "snapshot" /\ backend = "kubernetes"
    /\ \/ snapshot' = extract_workspace_snapshot(workspace) /\ snapshotStep' = "ok"
       \/ snapshot' = <<>> /\ snapshotStep' = "failed"
    /\ pc' = "teardown"
    /\ UNCHANGED <<reqVars, routeVars, sandboxVars, progVars, timeVars, chanVars,
                   streamVars, captured, timed_out, exit_code, pkillSent, pending,
                   outcome, truncVars, wrapVars, pathVars, trackVars, fsVars, stageVars>>

\* _cleanup_pod: delete the pod, ApiException suppressed; any other
\* exception leaves the finally block in place of what was propagating.
cleanup_pod(err) ==
    /\ released' = released \cup {container_name}
    /\ teardownError' = err
    /\ AfterTeardown(IF err = "other" THEN "Exception" ELSE pending)

K8sTeardown ==
    /\ pc = "teardown" /\ backend = "kubernetes"
    /\ \E err \in {"none", "api", "other"} : cleanup_pod(err)
    /\ progState' = IF progState = "running" THEN "killed" ELSE progState
    /\ UNCHANGED <<reqVars, routeVars, container_name, launch, workspace, written,
                   exitStatus, exitClock, timeVars, chanVars, streamVars, captured,
                   timed_out, exit_code, pkillSent, snapshot, snapshotStep, pending,
                   truncVars, wrapVars, pathVars, trackVars, fsVars, stageVars>>

(***************************************************************************)
(* routes.execute, after the backend call.                                 *)
(***************************************************************************)
\* ValueError becomes 422; any other exception leaves the handler (500).
RouteExcept ==
    /\ pc = "route_except"
    /\ response' = IF outcome.error = "ValueError"
                   THEN [NoResponse EXCEPT !.status = 422, !.error = "InvalidPath"]
                   ELSE [NoResponse EXCEPT !.status = 500, !.error = outcome.error]
    /\ pc' = "done"
    /\ UNCHANGED <<reqVars, store, staged_files, input_files_map, sandboxVars, progVars,
                   timeVars, chanVars, streamVars, callVars, truncVars, wrapVars, pathVars, trackVars, fsVars, stageVars>>

RouteReturn ==
    /\ pc = "route_return"
    /\ LET saved == save_workspace_files(outcome.result.files, input_files_map, store, <<>>)
       IN  /\ store' = saved.store
           /\ response' = [status |-> 200, error |-> "none", detail |-> NoDetail,
                           result |-> outcome.result,
                           files |-> saved.files]
    /\ pc' = "done"
    /\ UNCHANGED <<reqVars, staged_files, input_files_map, sandboxVars, progVars,
                   timeVars, chanVars, streamVars, callVars, truncVars, wrapVars, pathVars, trackVars, fsVars, stageVars>>

(***************************************************************************)
(* The environment: the user program and the clock.                        *)
(***************************************************************************)
SupervisePcs == {"communicate", "supervise", "stream_loop"}
BlockedPcs == {"write_stdin_blocked", "proc_wait"}
MaxClock == max_exec_timeout_ms + 1

\* A wait of the supervisor returns as soon as there is something to read or
\* the program is gone: time does not pass over a wakeup that is due.
WakeupDue ==
    /\ pc \in SupervisePcs
    /\ ~atYield
    /\ \/ progState # "running"
       \/ pendingOut # {}
       \/ (pc = "supervise" /\ (~streamOpen \/ errChan # "none"))
       \/ (pc = "stream_loop" /\ selMap \ pipeOpen # {})

\* The deadline's wakeup is due: the supervisor notices the expiry before the
\* program or the connection moves again.
DeadlineDue ==
    /\ pc \in SupervisePcs
    /\ ~atYield
    /\ deadline # Unset
    /\ clock >= deadline

Tick ==
    /\ \/ pc \in SupervisePcs /\ clock < deadline
       \/ pc \in BlockedPcs /\ clock < MaxClock
    /\ ~WakeupDue
    /\ clock' = clock + 1
    /\ ranOut' = (ranOut \/ (pc \in SupervisePcs /\ deadline # Unset
                             /\ clock + 1 >= deadline /\ progState = "running"))
    /\ UNCHANGED <<reqVars, routeVars, sandboxVars, progVars, deadline, chanVars,
                   streamVars, callVars, pc, truncVars, wrapVars, pathVars, trackVars, fsVars, stageVars>>

\* The program exits by itself with a status; its pipes close.  In the
\* cluster the exec error channel then carries a status message.
ProgExit ==
    /\ progState = "running"
    /\ ~DeadlineDue
    /\ pc \in SupervisePcs \cup BlockedPcs \cup {"write_stdin"}
    /\ awaitsEof => stdinEof
    /\ \E code \in ExitCodes :
          /\ exitStatus' = code
          /\ IF backend = "docker" THEN errChan' = "none"
             ELSE errChan' \in (IF code = 0 THEN {"Success"}
                                ELSE {"NonZeroExitCode", "NonZeroNoExitCode"})
                               \cup {"Failure", "NoStatus", "Unparsable"}
    /\ progState' = "exited"
    /\ exitClock' = clock
    /\ pipeOpen' = {}
    /\ UNCHANGED <<reqVars, routeVars, sandboxVars, workspace, written, timeVars,
                   streamOpen, pendingOut, streamVars, callVars, pc, truncVars, wrapVars, pathVars, trackVars, fsVars, stageVars>>

\* The program writes a chunk of output.  It runs until it is killed, so it
\* may write after the deadline and before the supervisor has acted on it.
ProgOutput ==
    /\ progState = "running"
    /\ pc \in SupervisePcs
    /\ captured + Len(events) + Cardinality(pendingOut) < MaxChunks
    /\ \E st \in {"stdout", "stderr"} \ pendingOut :
          /\ (backend = "docker" => st \in pipeOpen)
          /\ pendingOut' = pendingOut \cup {st}
    /\ UNCHANGED <<reqVars, routeVars, sandboxVars, progVars, timeVars, errChan,
                   streamOpen, pipeOpen, streamVars, callVars, pc, truncVars, wrapVars, pathVars, trackVars, fsVars, stageVars>>

\* The program writes a file of the workspace.
ProgWriteFile ==
    /\ progState = "running"
    /\ ~DeadlineDue
    /\ pc \in SupervisePcs
    /\ Cardinality(written) < MaxWrites
    /\ \E q \in DOMAIN workspace \cup {OutputPath}, b \in Bytes :
          /\ workspace' = Put(workspace, q, b)
          /\ written' = written \cup {q}
    /\ UNCHANGED <<reqVars, routeVars, sandboxVars, progState, exitStatus, exitClock,
                   timeVars, chanVars, streamVars, callVars, pc, truncVars, wrapVars, pathVars, trackVars, fsVars, stageVars>>

(***************************************************************************)
(* SpecTruncate: truncate_output on every stream of the family.            *)
(***************************************************************************)
Patterns == UNION {[1..n -> ByteAlphabet] : n \in 1..MaxPatLen}

Cycle(pat, n) == [i \in 1..n |-> pat[((i - 1) % Len(pat)) + 1]]

TruncIdle ==
    /\ tStream = <<>>
    /\ tMax = 0
    /\ tOut = <<>>
    /\ tDone = FALSE

(***************************************************************************)
(* SpecWrap: __main__.py under the interpreter, with and without the       *)
(* wrapper of wrap_last_line_interactive.  A program is a sequence of      *)
(* top-level statements; values and the lines of stdout are strings.       *)
(***************************************************************************)
\* The names the wrapper binds at module level, and what it binds them to.
AstModule == "<module ast>"
Tree == "<ast.Module>"
WrapperGlobals ==
    [n \in {"ast", "sys", "code", "tree"} |->
        CASE n = "ast" -> AstModule
          [] n = "sys" -> "<module sys>"
          [] n = "code" -> "<source>"
          [] n = "tree" -> Tree]

\* The statements of the programs tried: x = 1 and the same for names the
\* wrapper uses, the bare expression 7, print('hi'), print(name), raise.
Statements ==
    {[op |-> "assign", name |-> n] : n \in {"x", "tree", "ast"}}
    \cup {[op |-> "print", name |-> n] : n \in {"x", "code", "node"}}
    \cup {[op |-> o, name |-> "none"] : o \in {"literal", "print_literal", "raise"}}

Programs == UNION {[1..n -> Statements] : n \in 0..MaxStatements}

\* isinstance(node, ast.Expr): a call of print is an expression statement too.
IsExpr(stmt) == stmt.op \in {"literal", "print_literal", "print"}

NoEnv == [globals |-> EmptyFn, stdout |-> <<>>, exit_code |-> NoCode]
NoScript == [code |-> <<>>, last_line_interactive |-> FALSE]
NoPy == [pc |-> "idle", i |-> 0, env |-> NoEnv]

\* An uncaught exception ends the interpreter with status 1.
Uncaught(env) == [env EXCEPT !.exit_code = 1]

\* exec of one statement in the module's globals; compiled in 'single' mode
\* the value of an expression statement is printed unless it is None.
exec(stmt, env, single) ==
    CASE stmt.op = "assign" -> [env EXCEPT !.globals = Put(@, stmt.name, "1")]
      [] stmt.op = "literal" ->
           IF single THEN [env EXCEPT !.stdout = Append(@, "7")] ELSE env
      [] stmt.op = "print_literal" -> [env EXCEPT !.stdout = Append(@, "hi")]
      [] stmt.op = "print" ->
           IF stmt.name \in DOMAIN env.globals
           THEN [env EXCEPT !.stdout = Append(@, env.globals[stmt.name])]
           ELSE Uncaught(env)
      [] stmt.op = "raise" -> Uncaught(env)

\* The source executed unchanged: the statements in order up to the first
\* that raises.
RECURSIVE RunFrom(_, _, _)
RunFrom(code, i, env) ==
    IF env.exit_code # NoCode THEN env
    ELSE IF i > Len(code) THEN [env EXCEPT !.exit_code = 0]
    ELSE RunFrom(code, i + 1, exec(code[i], env, FALSE))

WrapIdle ==
    /\ script = NoScript
    /\ py = NoPy

NoValidation == [pc |-> "idle", ok |-> FALSE, path |-> <<>>]

PathIdle ==
    /\ input_path = <<>>
    /\ validated = NoValidation
    /\ revalidated = NoValidation
    /\ archive = <<>>

TrackIdle ==
    /\ bytes_sent = 0
    /\ decoderBuf = <<>>
    /\ chunkText = <<>>
    /\ flushed = FALSE

NoLog == [op |-> "none", id |-> <<"none", 0>>, found |-> FALSE, content |-> "none",
          metadata |-> NoMeta, listed |-> {}, count |-> 0]

StepIdle ==
    /\ getCall = NoGet
    /\ delCall = NoDelete
    /\ sweepCall = NoSweep

StoreIdle ==
    /\ wall = 0
    /\ puts = <<>>
    /\ fsLog = NoLog
    /\ StepIdle

TruncInit ==
    /\ backend = "docker"
    /\ mode = "run"
    /\ req = [timeout_ms |-> 1, files |-> <<[path |-> <<"a">>, file_id |-> <<"f1", 0>>]>>,
              stdin |-> "none"]
    /\ readsStdin = TRUE
    /\ awaitsEof = FALSE
    /\ ExecInit({<<"a">>})
    /\ \E pat \in Patterns, n \in 0..MaxStreamLen : tStream = Cycle(pat, n)
    /\ tMax \in 0..MaxCap
    /\ tOut = <<>>
    /\ tDone = FALSE
    /\ TrackIdle
    /\ WrapIdle
    /\ PathIdle
    /\ StoreIdle

Truncate ==
    /\ ~tDone
    /\ tOut' = truncate_output(tStream, tMax)
    /\ tDone' = TRUE
    /\ UNCHANGED <<tStream, tMax, wrapVars, pathVars, trackVars, fsVars, execVars>>

vars == <<truncVars, wrapVars, pathVars, trackVars, fsVars, execVars>>

SpecTruncate == TruncInit /\ [][Truncate]_vars

(***************************************************************************)
(* SpecStream: one output stream of a streaming execution.  The stream's   *)
(* bytes reach the tracker in reads of any size (_stream_process_output);  *)
(* the flush follows the loop, whether it ended at EOF or at the deadline. *)
(* truncate_output is applied to the same stream, as execute_python does.  *)
(***************************************************************************)
IdleRequest == [timeout_ms |-> 1, files |-> <<[path |-> <<"a">>, file_id |-> <<"f1", 0>>]>>,
                stdin |-> "none"]

ExecIdle ==
    /\ backend = "docker"
    /\ mode = "run"
    /\ req = IdleRequest
    /\ readsStdin = TRUE
    /\ awaitsEof = FALSE
    /\ ExecInit({<<"a">>})

StreamInit ==
    /\ ExecIdle
    /\ \E pat \in Patterns, n \in 0..MaxTrackLen : tStream = Cycle(pat, n)
    /\ tMax \in 0..MaxTrackCap
    /\ tOut = <<>>
    /\ tDone = FALSE
    /\ TrackIdle
    /\ WrapIdle
    /\ PathIdle
    /\ StoreIdle

\* One os.read of the pipe and the tracker's decode_chunk.
TrackerRead ==
    /\ ~flushed
    /\ bytes_sent < Len(tStream)
    /\ \E n \in 1..MaxRead :
          LET data == SubSeq(tStream, bytes_sent + 1, Min(bytes_sent + n, Len(tStream)))
              out == decode_chunk(bytes_sent, decoderBuf, tMax, data)
          IN  /\ bytes_sent' = out.bytes_sent
              /\ decoderBuf' = out.buf
              /\ chunkText' = chunkText \o out.text
    /\ UNCHANGED <<flushed, truncVars, wrapVars, pathVars, fsVars, execVars>>

TrackerFlush ==
    /\ ~flushed
    /\ chunkText' = chunkText \o flush(decoderBuf)
    /\ decoderBuf' = <<>>
    /\ flushed' = TRUE
    /\ UNCHANGED <<bytes_sent, truncVars, wrapVars, pathVars, fsVars, execVars>>

StreamNext == Truncate \/ TrackerRead \/ TrackerFlush

SpecStream == StreamInit /\ [][StreamNext]_vars

(***************************************************************************)
(* SpecStore: the File Store under upload, download, delete, list and the  *)
(* sweep, in any order; two uploads may overlap.                           *)
(***************************************************************************)
Uuids == {<<"u1", 0>>, <<"u2", 0>>}
Filenames == {<<"n1">>, <<"n2">>}

\* The identifiers a caller may send: any string, among them one never
\* issued and the names of the metadata files.
RequestIds == Uuids \cup {get_metadata_path(u) : u \in Uuids} \cup {<<"f0", 0>>}

Issued == {puts[i].id : i \in 1..Len(puts)}

uuid4_reissued == Uuids

\* uuid.uuid4(): a value that was never issued.
uuid4 == Uuids \ Issued

StoreInit ==
    /\ backend = "docker"
    /\ mode = "run"
    /\ req = IdleRequest
    /\ readsStdin = TRUE
    /\ awaitsEof = FALSE
    /\ store = EmptyFn
    /\ pc = "validate_timeout"
    /\ staged_files = <<>>
    /\ NothingRun
    /\ TruncIdle
    /\ TrackIdle
    /\ WrapIdle
    /\ PathIdle
    /\ StoreIdle

execButStore == <<reqVars, staged_files, input_files_map, response, sandboxVars, progVars,
                  timeVars, chanVars, streamVars, callVars, stageVars, pc>>

\* save_file up to the write of the content.
PutStart ==
    /\ Len(puts) < MaxPuts
    /\ \E id \in uuid4, content \in Bytes, filename \in Filenames :
          /\ store' = write_bytes(store, id, content, wall)
          /\ puts' = Append(puts, [id |-> id, content |-> content, filename |-> filename,
                                   done |-> FALSE, removed |-> FALSE])
    /\ fsLog' = [NoLog EXCEPT !.op = "put_content"]
    /\ UNCHANGED <<wall, execButStore, truncVars, wrapVars, pathVars, trackVars, stepVars>>

\* save_file from the write of the metadata to its return.
PutFinish ==
    /\ \E i \in 1..Len(puts) :
          /\ ~puts[i].done
          /\ store' = write_metadata(store, puts[i].id, puts[i].content, puts[i].filename,
                                     wall)
          /\ puts' = [puts EXCEPT ![i].done = TRUE]
    /\ fsLog' = [NoLog EXCEPT !.op = "put"]
    /\ UNCHANGED <<wall, execButStore, truncVars, wrapVars, pathVars, trackVars, stepVars>>

Get ==
    /\ \E id \in RequestIds :
          fsLog' = [NoLog EXCEPT !.op = "get", !.id = id,
                                 !.found = get_file(store, id).found,
                                 !.content = get_file(store, id).content,
                                 !.metadata = get_file(store, id).metadata]
    /\ UNCHANGED <<store, wall, puts, execButStore, truncVars, wrapVars, pathVars, trackVars, stepVars>>

Delete ==
    /\ \E id \in RequestIds :
          /\ store' = delete_file(store, id).store
          /\ fsLog' = [NoLog EXCEPT !.op = "delete", !.id = id,
                                    !.found = delete_file(store, id).existed]
          /\ puts' = [i \in 1..Len(puts) |->
                         IF puts[i].id = id THEN [puts[i] EXCEPT !.removed = TRUE]
                         ELSE puts[i]]
    /\ UNCHANGED <<wall, execButStore, truncVars, wrapVars, pathVars, trackVars, stepVars>>

List ==
    /\ fsLog' = [NoLog EXCEPT !.op = "list", !.listed = list_files(store)]
    /\ UNCHANGED <<store, wall, puts, execButStore, truncVars, wrapVars, pathVars, trackVars, stepVars>>

\* The sweep: cleanup_expired_files with the configured retention.
Sweep ==
    /\ store' = cleanup_expired_files(store, file_ttl_sec, wall).store
    /\ fsLog' = [NoLog EXCEPT !.op = "sweep",
                              !.count = cleanup_expired_files(store, file_ttl_sec, wall).count]
    /\ puts' = [i \in 1..Len(puts) |->
                   IF get_metadata_path(puts[i].id) \in Expired(store, file_ttl_sec, wall)
                   THEN [puts[i] EXCEPT !.removed = TRUE]
                   ELSE puts[i]]
    /\ UNCHANGED <<wall, execButStore, truncVars, wrapVars, pathVars, trackVars, stepVars>>

TickWall ==
    /\ wall < MaxWall
    /\ wall' = wall + 1
    /\ UNCHANGED <<store, puts, fsLog, execButStore, truncVars, wrapVars, pathVars, trackVars, stepVars>>

StoreNext == PutStart \/ PutFinish \/ Get \/ Delete \/ List \/ Sweep \/ TickWall

SpecStore == StoreInit /\ [][StoreNext]_vars

\* save_file from its call to its return, with no other call in between.
PutWhole ==
    /\ Len(puts) < MaxPuts
    /\ \E id \in uuid4, content \in Bytes, filename \in Filenames :
          /\ store' = save_file(store, id, content, filename, wall)
          /\ puts' = Append(puts, [id |-> id, content |-> content, filename |-> filename,
                                   done |-> TRUE, removed |-> FALSE])
    /\ fsLog' = [NoLog EXCEPT !.op = "put"]
    /\ UNCHANGED <<wall, execButStore, truncVars, wrapVars, pathVars, trackVars, stepVars>>

\* The File Store's operations called one after the other.
SequenceNext == PutWhole \/ Get \/ Delete \/ List \/ Sweep \/ TickWall

SpecSequence == StoreInit /\ [][SequenceNext]_vars

WrapInit ==
    /\ backend = "docker"
    /\ mode = "run"
    /\ req = IdleRequest
    /\ readsStdin = TRUE
    /\ awaitsEof = FALSE
    /\ store = UploadedStore
    /\ pc = "validate_timeout"
    /\ staged_files = <<>>
    /\ NothingRun
    /\ TruncIdle
    /\ TrackIdle
    /\ StoreIdle
    /\ PathIdle
    /\ py = NoPy
    /\ \E code \in Programs, lli \in BOOLEAN :
          script = [code |-> code, last_line_interactive |-> lli]

notPy == <<script, pathVars, truncVars, trackVars, fsVars, execVars>>

\* python /workspace/__main__.py with the source as it is: the next statement.
DirectStatement ==
    /\ ~script.last_line_interactive
    /\ py.pc \in {"idle", "run"}
    /\ py' = IF py.i + 1 > Len(script.code)
             THEN [py EXCEPT !.pc = "done", !.env.exit_code = 0]
             ELSE LET env == exec(script.code[py.i + 1], py.env, FALSE)
                  IN  [pc |-> IF env.exit_code # NoCode THEN "done" ELSE "run",
                       i |-> py.i + 1, env |-> env]
    /\ UNCHANGED notPy

\* The wrapper up to the loop: import ast, sys; code = ...; tree = ast.parse(code).
WrapPrologue ==
    /\ script.last_line_interactive
    /\ py.pc = "idle"
    /\ py' = IF Len(script.code) = 0
             THEN [pc |-> "done", i |-> 0,
                   env |-> [NoEnv EXCEPT !.globals = WrapperGlobals, !.exit_code = 0]]
             ELSE [pc |-> "body", i |-> 1, env |-> [NoEnv EXCEPT !.globals = WrapperGlobals]]
    /\ UNCHANGED notPy

\* One turn of "for node in tree.body[:-1]": node is bound, ast.Module is
\* looked up in the globals, code_obj is bound and the statement is executed.
WrapLoopBody ==
    /\ py.pc = "body"
    /\ py.i < Len(script.code)
    /\ LET g1 == Put(py.env.globals, "node", "<ast node>")
           g2 == Put(g1, "code_obj", "<code>")
           env == IF g1["ast"] # AstModule
                  THEN Uncaught([py.env EXCEPT !.globals = g1])
                  ELSE exec(script.code[py.i], [py.env EXCEPT !.globals = g2], FALSE)
       IN  py' = [pc |-> IF env.exit_code # NoCode THEN "done" ELSE "body",
                  i |-> py.i + 1, env |-> env]
    /\ UNCHANGED notPy

\* After the loop: last_node = tree.body[-1], the isinstance test, and the
\* last statement executed in 'single' mode if it is an expression.
WrapLast ==
    /\ py.pc = "body"
    /\ py.i = Len(script.code)
    /\ LET g1 == Put(py.env.globals, "last_node", "<ast node>")
           g2 == Put(IF IsExpr(script.code[py.i])
                     THEN Put(g1, "interactive", "<ast.Interactive>") ELSE g1,
                     "code_obj", "<code>")
           env == IF py.env.globals["tree"] # Tree THEN Uncaught(py.env)
                  ELSE IF g1["ast"] # AstModule
                       THEN Uncaught([py.env EXCEPT !.globals = g1])
                  ELSE exec(script.code[py.i], [py.env EXCEPT !.globals = g2],
                            IsExpr(script.code[py.i]))
       IN  py' = [pc |-> "done", i |-> py.i,
                  env |-> IF env.exit_code = NoCode THEN [env EXCEPT !.exit_code = 0]
                          ELSE env]
    /\ UNCHANGED notPy

WrapNext == DirectStatement \/ WrapPrologue \/ WrapLoopBody \/ WrapLast

SpecWrap == WrapInit /\ [][WrapNext]_vars

(***************************************************************************)
(* SpecSweep: cleanup_expired_files applied to a storage directory, with   *)
(* nothing else running.  The directory holds, for each identifier, a      *)
(* whole record of some upload time, a record whose metadata file does not *)
(* parse, a content file alone, a metadata file alone, or nothing.         *)
(***************************************************************************)
SweepIds == {<<"u1", 0>>, <<"u2", 0>>, <<"u3", 0>>}

EntryKinds ==
    {[kind |-> k, t |-> 0] : k \in {"absent", "content_only", "metadata_only", "corrupt"}}
    \cup {[kind |-> "whole", t |-> t] : t \in 0..MaxWall}

DirOf(ch) ==
    [n \in {u \in SweepIds : ch[u].kind \in {"content_only", "corrupt", "whole"}}
           \cup {get_metadata_path(u) :
                   u \in {v \in SweepIds : ch[v].kind \in {"metadata_only", "corrupt", "whole"}}}
      |-> IF n[2] = 0
          THEN [content |-> "B1", json |-> NoMeta, st_mtime |-> ch[n].t]
          ELSE IF ch[<<n[1], 0>>].kind = "corrupt"
               THEN [content |-> "X", json |-> NoMeta, st_mtime |-> 0]
               ELSE [content |-> "J", st_mtime |-> ch[<<n[1], 0>>].t,
                     json |-> [file_id |-> <<n[1], 0>>, filename |-> <<"n1">>,
                               size_bytes |-> SizeOf("B1"),
                               upload_time |-> ch[<<n[1], 0>>].t]]]

SweepInit ==
    /\ backend = "docker"
    /\ mode = "run"
    /\ req = IdleRequest
    /\ readsStdin = TRUE
    /\ awaitsEof = FALSE
    /\ pc = "validate_timeout"
    /\ staged_files = <<>>
    /\ NothingRun
    /\ TruncIdle
    /\ TrackIdle
    /\ WrapIdle
    /\ PathIdle
    /\ puts = <<>>
    /\ fsLog = NoLog
    /\ StepIdle
    /\ wall \in 0..MaxWall
    /\ \E ch \in [SweepIds -> EntryKinds] : store = DirOf(ch)

SweepNext == Sweep \/ TickWall

SpecSweep == SweepInit /\ [][SweepNext]_vars

(***************************************************************************)
(* SpecConcurrent: one get, one delete, one sweep and one upload running   *)
(* statement by statement against a directory of two records, one older    *)
(* than the retention and one exactly at it.                               *)
(***************************************************************************)
OldId == <<"f1", 0>>
EdgeId == <<"f2", 0>>

\* The directory before the calls.
InitialDir ==
    save_file(save_file(EmptyFn, OldId, "B1", <<"n1">>, 0),
              EdgeId, "B2", <<"n2">>, MaxWall - file_ttl_sec)

ConcurrentInit ==
    /\ backend = "docker"
    /\ mode = "run"
    /\ req = IdleRequest
    /\ readsStdin = TRUE
    /\ awaitsEof = FALSE
    /\ pc = "validate_timeout"
    /\ staged_files = <<>>
    /\ NothingRun
    /\ TruncIdle
    /\ TrackIdle
    /\ WrapIdle
    /\ PathIdle
    /\ puts = <<>>
    /\ fsLog = NoLog
    /\ StepIdle
    /\ wall = MaxWall
    /\ store = InitialDir

storeOnly == <<wall, puts, fsLog, execButStore, truncVars, wrapVars, pathVars, trackVars>>

\* file_path.exists(), at the call of get_file.
GetExists ==
    /\ getCall.pc = "idle"
    /\ \E id \in {OldId, EdgeId} :
          getCall' = IF get_file_path(id) \in DOMAIN store
                     THEN [NoGet EXCEPT !.pc = "read_bytes", !.id = id]
                     ELSE [NoGet EXCEPT !.pc = "done", !.id = id,
                                        !.result = "FileNotFoundError"]
    /\ UNCHANGED <<store, delCall, sweepCall, storeOnly>>

\* content = file_path.read_bytes()
GetReadBytes ==
    /\ getCall.pc = "read_bytes"
    /\ getCall' = IF get_file_path(getCall.id) \in DOMAIN store
                  THEN [getCall EXCEPT !.pc = "metadata_exists",
                                       !.content = store[get_file_path(getCall.id)].content]
                  ELSE [getCall EXCEPT !.pc = "done", !.result = "FileNotFoundError"]
    /\ UNCHANGED <<store, delCall, sweepCall, storeOnly>>

\* if metadata_path.exists()
GetMetadataExists ==
    /\ getCall.pc = "metadata_exists"
    /\ getCall' = [getCall EXCEPT !.pc = IF get_metadata_path(getCall.id) \in DOMAIN store
                                         THEN "read_text" ELSE "stat"]
    /\ UNCHANGED <<store, delCall, sweepCall, storeOnly>>

GetReadText_missing_as_empty ==
    /\ getCall.pc = "read_text"
    /\ getCall' =
          IF \/ get_metadata_path(getCall.id) \notin DOMAIN store
             \/ store[get_metadata_path(getCall.id)].json = NoMeta
          THEN [getCall EXCEPT !.pc = "done", !.result = "JSONDecodeError"]
          ELSE [getCall EXCEPT !.pc = "done", !.result = "returned",
                               !.metadata = store[get_metadata_path(getCall.id)].json]
    /\ UNCHANGED <<store, delCall, sweepCall, storeOnly>>

\* json.loads(metadata_path.read_text()) and the return.
GetReadText ==
    /\ getCall.pc = "read_text"
    /\ getCall' =
          IF get_metadata_path(getCall.id) \notin DOMAIN store
          THEN [getCall EXCEPT !.pc = "done", !.result = "FileNotFoundError"]
          ELSE IF store[get_metadata_path(getCall.id)].json = NoMeta
               THEN [getCall EXCEPT !.pc = "done", !.result = "JSONDecodeError"]
               ELSE [getCall EXCEPT !.pc = "done", !.result = "returned",
                                    !.metadata = store[get_metadata_path(getCall.id)].json]
    /\ UNCHANGED <<store, delCall, sweepCall, storeOnly>>

\* The fallback metadata, which reads file_path.stat(), and the return.
GetStat ==
    /\ getCall.pc = "stat"
    /\ getCall' =
          IF get_file_path(getCall.id) \notin DOMAIN store
          THEN [getCall EXCEPT !.pc = "done", !.result = "FileNotFoundError"]
          ELSE [getCall EXCEPT
                   !.pc = "done", !.result = "returned",
                   !.metadata = [file_id |-> getCall.id, filename |-> <<"unknown">>,
                                 size_bytes |-> SizeOf(getCall.content),
                                 upload_time |-> store[get_file_path(getCall.id)].st_mtime]]
    /\ UNCHANGED <<store, delCall, sweepCall, storeOnly>>

\* A caller's delete_file is called.
DeleteCall ==
    /\ delCall.pc = "idle"
    /\ \E id \in {OldId, EdgeId, get_metadata_path(OldId)} : delCall' = delete_file_call(id)
    /\ UNCHANGED <<store, getCall, sweepCall, storeOnly>>

\* The next statement of the caller's delete_file.
DeleteStatement ==
    /\ delCall.pc \notin {"idle", "done"}
    /\ delCall' = delete_file_step(delCall, store).call
    /\ store' = delete_file_step(delCall, store).store
    /\ UNCHANGED <<getCall, sweepCall, storeOnly>>

\* current_time = time.time() and the glob.
SweepScan ==
    /\ sweepCall.pc = "idle"
    /\ sweepCall' = [NoSweep EXCEPT !.pc = "loop", !.current_time = wall,
                                    !.paths = MetadataPaths(store)]
    /\ UNCHANGED <<store, getCall, delCall, storeOnly>>

\* The for statement: the next path of the glob, or the return.
SweepLoop ==
    /\ sweepCall.pc = "loop"
    /\ IF sweepCall.paths = {}
       THEN sweepCall' = [sweepCall EXCEPT !.pc = "done", !.result = "returned"]
       ELSE \E n \in sweepCall.paths :
               sweepCall' = [sweepCall EXCEPT !.pc = "read_text", !.metadata_path = n,
                                              !.paths = @ \ {n}]
    /\ UNCHANGED <<store, getCall, delCall, storeOnly>>

\* What the loop body does with an exception.
SweepExcept(exc) ==
    IF exc \in SweepCaught
    THEN [sweepCall EXCEPT !.pc = "loop", !.del = NoDelete, !.caught = @ \cup {exc}]
    ELSE [sweepCall EXCEPT !.pc = "done", !.del = NoDelete, !.result = exc]

\* The metadata is read and its age tested.
SweepReadText ==
    /\ sweepCall.pc = "read_text"
    /\ sweepCall' =
          IF sweepCall.metadata_path \notin DOMAIN store
          THEN SweepExcept("FileNotFoundError")
          ELSE IF store[sweepCall.metadata_path].json = NoMeta
               THEN SweepExcept("JSONDecodeError")
               ELSE IF sweepCall.current_time - store[sweepCall.metadata_path].json.upload_time
                          > file_ttl_sec
                    THEN [sweepCall EXCEPT
                             !.pc = "delete_file",
                             !.del = delete_file_call(
                                        store[sweepCall.metadata_path].json.file_id)]
                    ELSE [sweepCall EXCEPT !.pc = "loop"]
    /\ UNCHANGED <<store, getCall, delCall, storeOnly>>

\* The next statement of the sweep's delete_file, and the count on its return.
SweepDeleteStatement ==
    /\ sweepCall.pc = "delete_file"
    /\ LET r == delete_file_step(sweepCall.del, store)
       IN  /\ store' = r.store
           /\ sweepCall' =
                 IF r.call.result = "none" THEN [sweepCall EXCEPT !.del = r.call]
                 ELSE IF r.call.result = "returned"
                      THEN [sweepCall EXCEPT
                               !.pc = "loop", !.del = NoDelete,
                               !.deleted_count = IF r.call.existed THEN @ + 1 ELSE @]
                      ELSE SweepExcept(r.call.result)
    /\ UNCHANGED <<getCall, delCall, storeOnly>>

\* write_text opens the metadata file, which creates it empty.
PutOpenMetadata ==
    /\ \E i \in 1..Len(puts) :
          /\ ~puts[i].done
          /\ get_metadata_path(puts[i].id) \notin DOMAIN store
          /\ store' = Put(store, get_metadata_path(puts[i].id),
                          [content |-> "", json |-> NoMeta, st_mtime |-> wall])
    /\ UNCHANGED <<stepVars, storeOnly>>

ConcurrentNext ==
    \/ GetExists
    \/ GetReadBytes
    \/ GetMetadataExists
    \/ GetReadText
    \/ GetStat
    \/ DeleteCall
    \/ DeleteStatement
    \/ SweepScan
    \/ SweepLoop
    \/ SweepReadText
    \/ SweepDeleteStatement
    \/ (puts = <<>> /\ PutStart)
    \/ PutOpenMetadata
    \/ PutFinish

SpecConcurrent == ConcurrentInit /\ [][ConcurrentNext]_vars

(***************************************************************************)
(* Spec: one execution.                                                    *)
(***************************************************************************)
RouteNext ==
    \/ ValidateTimeout
    \/ StageRequestFiles
    \/ RouteExcept
    \/ RouteReturn

DockerRunNext ==
    \/ DockerLaunchFail
    \/ DockerLaunchOk
    \/ DockerStage
    \/ DockerPopen
    \/ DockerCommunicate
    \/ DockerTimeoutExpired
    \/ DockerSnapshot
    \/ DockerTeardown

DockerStreamNext ==
    \/ DockerWriteStdin
    \/ DockerWriteStdinBroken
    \/ StreamLoopEnd
    \/ StreamLoopDeadline
    \/ StreamLoopRead
    \/ ConsumerNext
    \/ ConsumerClose
    \/ StreamFlush
    \/ DockerTerminateProcess
    \/ DockerProcWait
    \/ YieldResult
    \/ ProgClosePipe

K8sNext ==
    \/ K8sCreatePod
    \/ K8sWaitReady
    \/ K8sWaitExhausted
    \/ K8sStage
    \/ K8sExec
    \/ K8sLoopClosed
    \/ K8sLoopDeadline
    \/ K8sLoopPoll
    \/ StreamClose
    \/ K8sSnapshot
    \/ K8sTeardown

\* Spec: the lifecycle of one call, with one accepted and one rejected path.
LifecyclePaths == {<<"a">>, <<".", ".">>}

Init ==
    ExecInit(LifecyclePaths) /\ TruncIdle /\ TrackIdle /\ WrapIdle /\ PathIdle /\ StoreIdle

Next ==
    \/ RouteNext
    \/ DockerRunNext
    \/ DockerStreamNext
    \/ K8sNext
    \/ BaseExecutePythonStreaming
    \/ Tick
    \/ ProgExit
    \/ ProgOutput

Spec == Init /\ [][Next]_vars

(***************************************************************************)
(* SpecExecute: POST /execute with every request path, on either backend.  *)
(***************************************************************************)
ExecuteInit ==
    /\ ExecInit(PathStrings)
    /\ mode = "run"
    /\ req.timeout_ms \in {1, max_exec_timeout_ms, max_exec_timeout_ms + 1}
    /\ \A i \in 2..Len(req.files) : req.files[i].file_id \notin Records(UploadedStore)
    \* the timeout at the maximum and the reference to a metadata file are
    \* tried with one path
    /\ req.timeout_ms = max_exec_timeout_ms => req.files = IdleRequest.files
    /\ (\E i \in 2..Len(req.files) : req.files[i].file_id[2] > 0) =>
          req.files[1].path = <<"a">>
    /\ TruncIdle
    /\ TrackIdle
    /\ WrapIdle
    /\ PathIdle
    /\ StoreIdle

ExecuteNext ==
    \/ RouteNext
    \/ DockerRunNext
    \/ K8sNext
    \/ Tick
    \/ ProgExit
    \/ ProgWriteFile

SpecExecute == ExecuteInit /\ [][ExecuteNext]_vars

(***************************************************************************)
(* SpecPath: the validation of one input path by _create_tar_archive, and  *)
(* of the path it returned.                                                *)
(***************************************************************************)
\* _validate_relative_path and the comparison with the entrypoint's name.
validated_path(str) ==
    [pc |-> "done",
     ok |-> create_tar_archive(<<<<str, "B1">>>>).ok,
     path |-> IF create_tar_archive(<<<<str, "B1">>>>).ok
              THEN create_tar_archive(<<<<str, "B1">>>>).files[1][1]
              ELSE <<>>]

\* The longest path string validated on its own.
MaxInputLen == 4

InputStrings == UNION {[1..n -> Atoms] : n \in 0..MaxInputLen}

PathInit ==
    /\ ExecIdle
    /\ TruncIdle
    /\ TrackIdle
    /\ WrapIdle
    /\ StoreIdle
    /\ input_path \in InputStrings
    /\ validated = NoValidation
    /\ revalidated = NoValidation
    /\ archive = <<>>

notPath == <<truncVars, wrapVars, trackVars, fsVars, execVars>>

ValidatePath ==
    /\ validated.pc = "idle"
    /\ validated' = validated_path(input_path)
    /\ UNCHANGED <<input_path, revalidated, archive, notPath>>

\* The returned Path, as the string it prints as, is validated again.
RevalidatePath ==
    /\ validated.pc = "done" /\ validated.ok
    /\ revalidated.pc = "idle"
    /\ revalidated' = validated_path(as_posix(validated.path))
    /\ UNCHANGED <<input_path, validated, archive, notPath>>

PathNext == ValidatePath \/ RevalidatePath

SpecPath == PathInit /\ [][PathNext]_vars

(***************************************************************************)
(* SpecArchive: the members of the archive _create_tar_archive builds, in  *)
(* either backend.  A member is its path, type, mode, owner, declared size *)
(* and data.                                                               *)
(***************************************************************************)
\* The container backend leaves TarInfo's uid and gid at their default 0;
\* the cluster backend sets them.
OwnerId(b) == IF b = "kubernetes" THEN 65532 ELSE 0

\* tarfile.TarInfo for a file: mode 0o644, size len(content).
FileInfo(b, path, content) ==
    [path |-> path, type |-> "file", mode |-> 420, uid |-> OwnerId(b), gid |-> OwnerId(b),
     size |-> SizeOf(content), content |-> content]

\* tarfile.TarInfo for a directory: DIRTYPE, mode 0o755.
DirInfo(b, path) ==
    [path |-> path, type |-> "dir", mode |-> 493, uid |-> OwnerId(b), gid |-> OwnerId(b),
     size |-> 0, content |-> "none"]

\* The directory still has to be added.
ToCreate_always(dir_path, created_dirs) == TRUE
ToCreate(dir_path, created_dirs) == dir_path \notin created_dirs

\* The loop over parent_parts: each prefix not yet in created_dirs is added.
RECURSIVE ParentDirs(_, _, _, _)
ParentDirs(b, parent_parts, created_dirs, i) ==
    IF i > Len(parent_parts) THEN <<>>
    ELSE LET dir_path == SubSeq(parent_parts, 1, i)
         IN  (IF ToCreate(dir_path, created_dirs) THEN <<DirInfo(b, dir_path)>> ELSE <<>>)
             \o ParentDirs(b, parent_parts, created_dirs \cup {dir_path}, i + 1)

\* The loop over files: the parents of a file, then the file.
RECURSIVE AddFiles(_, _, _)
AddFiles(b, files, created_dirs) ==
    IF files = <<>> THEN <<>>
    ELSE LET validated_parts == validate_relative_path(Head(files)[1]).path
             parent_parts == SubSeq(validated_parts, 1, Len(validated_parts) - 1)
         IN  ParentDirs(b, parent_parts, created_dirs, 1)
             \o <<FileInfo(b, validated_parts, Head(files)[2])>>
             \o AddFiles(b, Tail(files),
                         created_dirs \cup {SubSeq(parent_parts, 1, i) :
                                               i \in 1..Len(parent_parts)})

\* The members of the archive: the entrypoint, then the staged inputs.
TarMembers(b, files) == <<FileInfo(b, <<EntryPoint>>, "J")>> \o AddFiles(b, files, {})

MaxArchiveFiles == 2

ArchivePaths ==
    {<<"a">>, <<".", "a">>, <<"a", "/", "a">>, <<"a", "/", ".", "a">>,
     <<".", "/", "a", "/", "/", "a">>, <<"a", "/", "a", "/", "a">>,
     <<"a", "/", "a", "/", ".", "a">>, <<".", "a", "/", "a">>}

ArchiveInputs ==
    UNION {[1..n -> ArchivePaths \X Bytes] : n \in 0..MaxArchiveFiles}

ArchiveInit ==
    /\ backend \in {"docker", "kubernetes"}
    /\ mode = "run"
    /\ req = IdleRequest
    /\ readsStdin = TRUE
    /\ awaitsEof = FALSE
    /\ store = UploadedStore
    /\ pc = "stage"
    /\ staged_files \in ArchiveInputs
    /\ NothingRun
    /\ TruncIdle
    /\ TrackIdle
    /\ WrapIdle
    /\ StoreIdle
    /\ input_path = <<>>
    /\ validated = NoValidation
    /\ revalidated = NoValidation
    /\ archive = <<>>

\* _create_tar_archive(code, files, last_line_interactive)
BuildArchive ==
    /\ archive = <<>>
    /\ create_tar_archive(staged_files).ok
    /\ archive' = TarMembers(backend, staged_files)
    /\ UNCHANGED <<input_path, validated, revalidated, notPath>>

SpecArchive == ArchiveInit /\ [][BuildArchive]_vars

(***************************************************************************)
(* The properties.                                                         *)
(***************************************************************************)
\* The backend call has ended: it returned, raised, or was closed.
CallEnded == outcome.kind # "none"

\* C1 (as stated): once the sandbox launch has been attempted, every end of
\* the backend call is preceded by a kill of the container / delete of the
\* pod with that call's sandbox name.
C1_TeardownOnceAttempted ==
    (CallEnded /\ launch # "not_attempted") => container_name \in released

\* C1 (amended): in the cluster backend once the pod creation has been
\* attempted, and in the container backend once docker run has succeeded,
\* every end of the call (return, raise, close of the generator) is preceded
\* by a delete of the pod / kill of the container with that call's name.
C1_TeardownOnEveryExit ==
    /\ (pc = "yield_result" \/ CallEnded) =>
          ((launch = "ok" \/ (backend = "kubernetes" /\ launch = "failed"))
              => container_name \in released)
    /\ released \subseteq {SandboxName}

\* C1 witness: a call that raised for an invalid staged path, after the kill.
C1_Witness ==
    /\ outcome.kind = "raised"
    /\ outcome.error = "ValueError"
    /\ launch = "ok"
    /\ container_name \in released

\* C2: in a run, if the program has not exited when timeout_ms has elapsed
\* since supervision started, pkill -9 python is sent and the result has
\* timed_out = true and exit_code = null; if the program exits before the
\* deadline the result has timed_out = false.
C2_BoundedWallTime ==
    (mode = "run" /\ outcome.kind = "returned") =>
        /\ ranOut => /\ pkillSent
                     /\ outcome.result.timed_out
                     /\ outcome.result.exit_code = NoCode
        /\ (exitClock # Unset /\ exitClock < deadline) => ~outcome.result.timed_out

\* C2 witness: a run in the cluster whose program was still running at the
\* deadline, returned.
C2_Witness ==
    /\ mode = "run" /\ backend = "kubernetes"
    /\ outcome.kind = "returned"
    /\ ranOut
    /\ progState = "killed"

\* C3: in a streaming execution, once timeout_ms has elapsed with the
\* program still running, the call is not in a wait that has no time limit
\* (the write of stdin, or the wait for the process after both pipes closed).
C3_StreamBoundedWallTime ==
    (mode = "stream" /\ progState = "running"
        /\ clock >= (IF deadline = Unset THEN req.timeout_ms ELSE deadline))
    => pc \notin BlockedPcs

\* C4: every returned result has an integer exit code exactly when
\* timed_out is false, and a null exit code exactly when timed_out is true.
C4_ResultInvariant ==
    outcome.kind = "returned" =>
        (outcome.result.timed_out <=> outcome.result.exit_code = NoCode)

Summaries == {i \in 1..Len(events) : events[i] = "result"}

\* C5 (as stated): a streaming execution that has ended emitted exactly one
\* terminal summary, as its last event.
C5_ExactlyOneSummary ==
    (mode = "stream" /\ CallEnded) => Summaries = {Len(events)} /\ events # <<>>

\* C5 (amended): a streaming execution that runs to its end emits exactly
\* one terminal summary, as its last event; one that raises or that the
\* consumer closes early emits none; no execution ever emits two, or a chunk
\* after the summary.
C5_SummaryLast ==
    mode = "stream" =>
        /\ Summaries \subseteq {Len(events)}
        /\ outcome.kind = "returned" => Summaries = {Len(events)} /\ events # <<>>
        /\ (outcome.kind \in {"raised", "closed"} \/ pending # "none") => Summaries = {}

\* C5 witness: a streaming execution that emitted a chunk and then the summary.
C5_Witness ==
    /\ mode = "stream"
    /\ outcome.kind = "returned"
    /\ Len(events) >= 2
    /\ events[1] # "result"

\* C6: when nothing but the snapshot or the teardown fails, the call returns
\* the captured output, exit code and timed_out flag, with files empty after
\* a failed snapshot, and raises nothing.
C6_NoMasking ==
    (mode = "run" /\ CallEnded /\ launch = "ok" /\ pending = "none") =>
        /\ outcome.kind = "returned"
        /\ outcome.result.stdout = captured
        /\ outcome.result.timed_out = timed_out
        /\ snapshotStep = "failed" => outcome.result.files = <<>>

\* The first staged input of the request, and where it lives in the workspace.
FirstPath == req.files[1].path
FirstBytes == UploadedStore[req.files[1].file_id].content
Rejected(path_str) ==
    \/ is_absolute(path_str)
    \/ HasDotDot(parts(path_str))
    \/ parts(path_str) = <<>>
    \/ parts(path_str) = <<EntryPoint>>

\* The entries of the response that name the first input: by the path of the
\* request or by its normalised form.
EntriesFor(path_str) ==
    {i \in 1..Len(response.files) :
        response.files[i].path \in {path_str, as_posix(parts(path_str))}}

\* C7: for an accepted staged path p with bytes b, after a successful
\* snapshot: if the program did not write to p the response has no entry for
\* p; if it left other bytes there, the response has exactly one entry for p
\* and the store holds those bytes under the entry's file_id.
C7_SnapshotDiff ==
    (response.status = 200 /\ snapshotStep = "ok" /\ ~Rejected(FirstPath)) =>
        IF parts(FirstPath) \notin written
        THEN EntriesFor(FirstPath) = {}
        ELSE workspace[parts(FirstPath)] # FirstBytes =>
                /\ Cardinality(EntriesFor(FirstPath)) = 1
                /\ \A i \in EntriesFor(FirstPath) :
                      /\ response.files[i].file_id \in DOMAIN store
                      /\ get_file(store, response.files[i].file_id).content
                            = workspace[parts(FirstPath)]

MarkerText == decode_replace(suffix)

Truncated == tDone /\ Len(tStream) > tMax

EndsWithMarker(t) == Len(t) >= Len(suffix) /\ LastN(t, Len(suffix)) = MarkerText

\* C9 (as stated): for every captured stream and every max_output_bytes >= 0
\* the returned text is at most max_output_bytes bytes long, and whenever the
\* stream is longer than max_output_bytes its last 15 bytes are the marker.
C9_OutputCapAsStated ==
    tDone =>
        /\ Utf8Len(tOut) <= tMax
        /\ (Len(tStream) > tMax => EndsWithMarker(tOut))

\* C9 (amended): for every max_output_bytes at least the marker's length the
\* returned text is at most max_output_bytes characters long; and for every
\* max_output_bytes >= 0, whenever the stream is longer than max_output_bytes
\* the last 15 characters of the text are the marker.
C9_OutputCap ==
    tDone =>
        /\ (tMax >= Len(suffix) => Len(tOut) <= tMax)
        /\ (Len(tStream) > tMax => EndsWithMarker(tOut))

\* C9 witness: a stream with bytes that are not valid UTF-8 was truncated
\* and some of its bytes were retained before the marker.
C9_Witness ==
    /\ Truncated
    /\ tMax > TruncateReserve
    /\ \E i \in 1..Len(tStream) : tStream[i] >= 128

\* C10 (as stated): when the stream is longer than max_output_bytes the
\* output is the first max_output_bytes - 15 bytes of the stream followed by
\* the 15-byte marker, max_output_bytes long in total; otherwise the output
\* is the stream unchanged, with no marker.
C10_TruncationShape ==
    tDone =>
        IF Len(tStream) > tMax
        THEN tMax >= Len(suffix) =>
                /\ tOut = decode_replace(Take(tStream, tMax - Len(suffix)) \o suffix)
                /\ Len(Take(tStream, tMax - Len(suffix)) \o suffix) = tMax
        ELSE tOut = decode_replace(tStream)

\* The stream was read to its end and the tracker flushed.
StreamComplete == flushed /\ bytes_sent = Len(tStream)

\* C11 (as stated): the bytes emitted in chunks for one stream, final flush
\* included, never exceed max_output_bytes.
C11_StreamCapBytes == Utf8Len(chunkText) <= tMax

\* C11 (amended): the chunks of one stream hold the decoding of the first
\* min(bytes read, max_output_bytes) bytes of the stream, so at most
\* max_output_bytes raw bytes are decoded and at most that many characters
\* emitted; bytes read after the cap are counted and not emitted.
C11_StreamCap ==
    /\ Len(chunkText) <= tMax
    /\ bytes_sent <= Len(tStream)
    /\ chunkText \o decode_replace(decoderBuf)
          = decode_replace(Take(tStream, Min(bytes_sent, tMax)))
    /\ flushed => decoderBuf = <<>>

\* C11 witness: a stream longer than the cap was read to its end, and text
\* was emitted before the cap.
C11_Witness ==
    /\ StreamComplete
    /\ Len(tStream) > tMax
    /\ chunkText # <<>>
    /\ \E i \in 1..Len(tStream) : tStream[i] >= 128

\* C12: for a program that does not time out, the concatenation of the
\* chunks of a stream equals the text execute_python returns for it.
C12_StreamingEquivalence == (tDone /\ StreamComplete) => chunkText = tOut

\* C13: whichever backend is selected, both operations are available: no
\* call of execute_python or execute_python_streaming ends because the
\* backend does not implement the operation.
C13_BothOperationsAvailable == CallEnded => outcome.error # "NotImplementedError"

EntriesAt(path, kind) ==
    {i \in 1..Len(snapshot) : snapshot[i].path = path /\ snapshot[i].kind = kind}

\* C14: after a successful snapshot, every file and directory of the
\* workspace other than the entrypoint has exactly one entry, whose path is
\* its relative path and, for a file, whose content is the file's bytes; the
\* root is not reported.
C14_SnapshotComplete ==
    (outcome.kind = "returned" /\ snapshotStep = "ok") =>
        /\ \A q \in DOMAIN workspace :
              /\ Cardinality(EntriesAt(as_posix(q), "file")) = 1
              /\ \A i \in EntriesAt(as_posix(q), "file") : snapshot[i].content = workspace[q]
        /\ \A d \in DirsOf(workspace) : Cardinality(EntriesAt(as_posix(d), "directory")) = 1
        /\ \A i \in 1..Len(snapshot) : snapshot[i].path \notin {<<>>, <<".">>}

MissingRefs == {i \in 1..Len(req.files) : req.files[i].file_id \notin Records(UploadedStore)}

\* C15: a request that reaches staging with a reference whose file-id has no
\* record is answered 404, naming that file-id and its path; no sandbox is
\* launched, no user code runs and the File Store is unchanged.
C15_UnknownFile ==
    (pc = "done" /\ req.timeout_ms <= max_exec_timeout_ms /\ MissingRefs # {}) =>
        /\ response.status = 404
        /\ response.error = "UnknownFile"
        /\ \E i \in MissingRefs :
              /\ response.detail.file_id = req.files[i].file_id
              /\ response.detail.path = req.files[i].path
        /\ launch = "not_attempted"
        /\ container_name = "none"
        /\ progState = "none"
        /\ store = UploadedStore

\* C16: a request is answered InvalidTimeout (422) exactly when its timeout_ms
\* exceeds max_exec_timeout_ms, whatever its files and paths; a rejected
\* request resolved no file-id, launched no sandbox and left the File Store as
\* it was.
C16_InvalidTimeout ==
    pc = "done" =>
        /\ (response.status = 422 /\ response.error = "InvalidTimeout")
              <=> req.timeout_ms > max_exec_timeout_ms
        /\ req.timeout_ms > max_exec_timeout_ms =>
              /\ staged_files = <<>>
              /\ input_files_map = EmptyFn
              /\ launch = "not_attempted"
              /\ container_name = "none"
              /\ progState = "none"
              /\ store = UploadedStore

\* C16 witness: a request over the maximum that also names a file-id without
\* a record at a rejected path, answered InvalidTimeout.
C16_Witness ==
    /\ pc = "done"
    /\ req.timeout_ms = max_exec_timeout_ms + 1
    /\ MissingRefs # {}
    /\ Rejected(FirstPath)
    /\ response.error = "InvalidTimeout"

\* The identifiers of the records put and neither deleted nor swept.
Live == {puts[i].id : i \in {j \in 1..Len(puts) : ~puts[j].removed}}

\* The step is a put, whole or in part.
PutStep == fsLog'.op \in {"put", "put_content"} /\ store' # store

\* C17: the identifier a put generates differs from every identifier issued
\* before and from that of every record in the store, whatever the bytes and
\* the filename; no step of a put changes what get returns for another
\* record, removes a record or changes its entry in the listing.
C17_IdentifierUniqueness ==
    [][PutStep =>
          /\ \A i \in 1..Len(puts') :
                i > Len(puts) => /\ puts'[i].id \notin Issued
                                 /\ puts'[i].id \notin DOMAIN store
                                 /\ get_metadata_path(puts'[i].id) \notin DOMAIN store
          /\ \A i \in 1..Len(puts) :
                (puts[i].done /\ puts'[i] = puts[i]) =>
                    /\ get_file(store', puts[i].id) = get_file(store, puts[i].id)
                    /\ \A m \in list_files(store) :
                          m.file_id = puts[i].id => m \in list_files(store')]_vars

\* C17 witness: two puts of the same bytes under the same filename have
\* completed and both records are in the store.
C17_Witness ==
    /\ Len(puts) = 2
    /\ puts[1].done /\ puts[2].done
    /\ puts[1].content = puts[2].content
    /\ puts[1].filename = puts[2].filename
    /\ puts[1].id # puts[2].id
    /\ {puts[1].id, puts[2].id} \subseteq Records(store)

\* C18: once a put has completed, and until its identifier is deleted or
\* swept, get of that identifier returns the bytes put and metadata with that
\* identifier, the filename put and the length of the bytes, whatever other
\* operations on other identifiers happen in between.
C18_PutGetRoundTrip ==
    \A i \in 1..Len(puts) :
        (puts[i].done /\ ~puts[i].removed) =>
            /\ get_file(store, puts[i].id).found
            /\ get_file(store, puts[i].id).content = puts[i].content
            /\ get_file(store, puts[i].id).metadata.file_id = puts[i].id
            /\ get_file(store, puts[i].id).metadata.filename = puts[i].filename
            /\ get_file(store, puts[i].id).metadata.size_bytes = SizeOf(puts[i].content)

\* C19: get returns content only for an identifier that a put created a
\* record for and that was neither deleted nor swept since; for every other
\* string it fails with NotFound.
C19_GetNotFound ==
    (fsLog.op = "get" /\ fsLog.found) => fsLog.id \in Live

\* The step is a delete.
DeleteStep == fsLog'.op = "delete" /\ <<store, fsLog>>' # <<store, fsLog>>

\* C20: delete returns true exactly when a record for the identifier existed
\* at the call; after a delete that returned true, get of the identifier
\* fails, the listing does not contain it and a second delete returns false;
\* the records with other identifiers are unchanged.
C20_Delete ==
    [][DeleteStep =>
          /\ fsLog'.found <=> fsLog'.id \in Live
          /\ fsLog'.found =>
                /\ ~get_file(store', fsLog'.id).found
                /\ \A m \in list_files(store') : m.file_id # fsLog'.id
                /\ ~delete_file(store', fsLog'.id).existed
          /\ \A id \in Live \ {fsLog'.id} :
                /\ get_file(store', id) = get_file(store, id)
                /\ \A m \in list_files(store) : m.file_id = id => m \in list_files(store')]_vars

\* The records of a directory whose metadata file parses, and those among
\* them uploaded before now - max_age_sec.
WholeRecords(st) ==
    {u \in Records(st) :
        get_metadata_path(u) \in DOMAIN st /\ st[get_metadata_path(u)].json # NoMeta}

Older(st, max_age_sec, now) ==
    {u \in WholeRecords(st) : st[get_metadata_path(u)].json.upload_time < now - max_age_sec}

\* The step is a sweep.
SweepStep == fsLog'.op = "sweep" /\ <<store, fsLog>>' # <<store, fsLog>>

C22_SweepTolerates ==
    [][/\ sweepCall'.result \in {"none", "returned"}
       /\ (sweepCall' # sweepCall /\ store' # store) =>
             (DOMAIN store \ DOMAIN store') \subseteq {OldId, get_metadata_path(OldId)}]_vars

\* C22 witness: a sweep returned after it skipped a metadata file that
\* disappeared under it and one that an upload had opened but not written.
C22_Witness ==
    /\ sweepCall.result = "returned"
    /\ {"FileNotFoundError", "JSONDecodeError"} \subseteq sweepCall.caught
    /\ EdgeId \in DOMAIN store

\* C23: in every interleaving of a get with a delete or a sweep of the same
\* record, the get fails with FileNotFoundError or returns the bytes stored
\* under the identifier with the stored metadata or with the synthesised
\* one (filename "unknown"); it raises nothing else.
C23_ReadersTolerateDeletes ==
    /\ getCall.result \in {"none", "returned", "FileNotFoundError"}
    /\ getCall.result = "returned" =>
          /\ getCall.content = InitialDir[get_file_path(getCall.id)].content
          /\ \/ getCall.metadata = InitialDir[get_metadata_path(getCall.id)].json
             \/ /\ getCall.metadata.file_id = getCall.id
                /\ getCall.metadata.filename = <<"unknown">>
                /\ getCall.metadata.size_bytes = SizeOf(getCall.content)

\* C23 witness: a get read the bytes and then failed with NotFound, the
\* sweep having removed the record in between.
C23_Witness ==
    /\ getCall.result = "FileNotFoundError"
    /\ getCall.content = "B1"
    /\ delCall.pc = "idle"
    /\ sweepCall.deleted_count = 1

\* C24: in the cluster backend, what tar -x received on its stdin is the
\* archive the builder produced: once staging has succeeded, the workspace
\* holds every staged file with exactly its bytes, also when they are not
\* valid UTF-8.
C24_BinarySafeStaging ==
    (backend = "kubernetes" /\ pc = "exec") =>
        /\ write_stdin(getvalue(create_tar_archive(staged_files).files))
              = getvalue(create_tar_archive(staged_files).files)
        /\ workspace = Extract(create_tar_archive(staged_files).files, EmptyFn)
        /\ \A i \in 1..Len(staged_files) :
              \E q \in DOMAIN workspace :
                 /\ q = validate_relative_path(staged_files[i][1]).path
                 /\ (\A j \in (i + 1)..Len(staged_files) :
                        validate_relative_path(staged_files[j][1]).path # q)
                      => workspace[q] = staged_files[i][2]

\* C24 witness: a file whose bytes are not valid UTF-8 was staged in a pod.
C24_Witness ==
    /\ backend = "kubernetes"
    /\ pc = "exec"
    /\ \E q \in DOMAIN workspace : workspace[q] = "B2" /\ BytesOf(workspace[q])[1] >= 128

\* The last statement of the program is a call of print.
EndsInPrint ==
    /\ script.code # <<>>
    /\ script.code[Len(script.code)].op \in {"print", "print_literal"}

\* C25: a program ending in a print statement, whatever names its statements
\* bind or read, gives under the wrapper the stdout and the exit code it
\* gives when run as it is.
C25_WrapTransparent ==
    (script.last_line_interactive /\ py.pc = "done" /\ EndsInPrint) =>
        /\ py.env.stdout = RunFrom(script.code, 1, NoEnv).stdout
        /\ py.env.exit_code = RunFrom(script.code, 1, NoEnv).exit_code

\* What the echo is to do: the program run as it is, and the value of the
\* last statement printed after it when that statement is a bare expression
\* and nothing raised.
Echoed(code) ==
    LET env == RunFrom(code, 1, NoEnv)
    IN  IF code # <<>> /\ env.exit_code = 0 /\ code[Len(code)].op = "literal"
        THEN [env EXCEPT !.stdout = Append(@, "7")]
        ELSE env

\* C26: with last_line_interactive the statements run in order up to the
\* first that raises, earlier bare expressions print nothing and only a last
\* bare expression is echoed; without it the source runs unchanged.
C26_LastExpressionEcho ==
    py.pc = "done" =>
        IF script.last_line_interactive
        THEN /\ py.env.stdout = Echoed(script.code).stdout
             /\ py.env.exit_code = Echoed(script.code).exit_code
        ELSE /\ py.env.stdout = RunFrom(script.code, 1, NoEnv).stdout
             /\ py.env.exit_code = RunFrom(script.code, 1, NoEnv).exit_code

\* C27: in execute_python of either backend, once the deadline has elapsed
\* the program is killed and the output it had written is drained into the
\* result before the snapshot, and the snapshot is attempted before the
\* sandbox is torn down.
C27_TimeoutSequence ==
    (mode = "run" /\ timed_out) =>
        /\ progState # "running"
        /\ pkillSent
        /\ pc = "snapshot" => pendingOut = {}
        /\ container_name \in released => snapshotStep # "none"

\* Staging failed: the archive was not built, or tar -x ended with a
\* nonzero or missing status.
StagingFailed ==
    \/ tar_archive = "ValueError"
    \/ tar_archive = "built" /\ tar_exit_code # 0

\* C28: in both backends the user program is started only after the archive
\* was built and extracted with status 0; when staging failed the call ends
\* with an error, the interpreter is never started in the sandbox, no
\* snapshot is taken, and staging is not attempted again.
C28_StartsOnlyAfterStaging ==
    /\ [](progState # "none" => tar_archive = "built" /\ tar_exit_code = 0)
    /\ [](StagingFailed =>
             /\ progState = "none"
             /\ snapshotStep = "none" /\ snapshot = <<>>
             /\ pending # "none" \/ outcome.kind = "raised"
             /\ pc = "done" /\ mode = "run" => response.status >= 400)
    /\ [][StagingFailed =>
             /\ stageVars' = stageVars
             /\ launch' = launch /\ container_name' = container_name
             /\ pc' \notin {"launch", "wait_ready", "stage", "popen", "exec"}]_vars

C28_Witness ==
    /\ tar_archive = "built" /\ tar_exit_code = NoCode
    /\ outcome.kind = "raised"
    /\ container_name \in released
    /\ pc = "done"

\* The entry is a file that is not a staged input with the same bytes.
ToReport(e) ==
    /\ e.kind = "file"
    /\ ~(\E p \in DOMAIN input_files_map : p = e.path /\ input_files_map[p] = e.content)

\* The step is the route's return of a finished run.
ReturnStep == pc = "route_return" /\ pc' = "done"

\* C29: the files of the response are, in the backend's order, one item for
\* each file entry of the snapshot that is not a staged input with identical
\* bytes; no directory is reported; each item's file-id did not exist before
\* and the bytes stored under it are the entry's content.
C29_DiffRule ==
    [][ReturnStep =>
          LET expected == SelectSeq(outcome.result.files, ToReport)
              files == response'.files
          IN  /\ Len(files) = Len(expected)
              /\ \A i \in 1..Len(files) :
                    /\ files[i].path = expected[i].path
                    /\ files[i].kind = "file"
                    /\ files[i].file_id \notin DOMAIN store
                    /\ \A j \in 1..Len(files) : j # i => files[j].file_id # files[i].file_id
                    /\ get_file(store', files[i].file_id).found
                    /\ get_file(store', files[i].file_id).content = expected[i].content]_vars

C29_Witness ==
    /\ pc = "done" /\ response.status = 200
    /\ \E k \in 1..Len(outcome.result.files) : outcome.result.files[k].kind = "directory"
    /\ \E i \in 1..Len(response.files) : response.files[i].path \in DOMAIN input_files_map

\* The positions that bound the segments of p: before the first character,
\* every "/" and after the last character.
Cuts(p) == {0, Len(p) + 1} \cup {i \in 1..Len(p) : p[i] = "/"}

\* The segment that begins after the cut b.
SegmentAfter(p, b) ==
    SubSeq(p, b + 1, (CHOOSE c \in Cuts(p) : c > b /\ \A d \in Cuts(p) : d > b => c <= d) - 1)

\* The cuts whose segment is neither empty nor ".".
KeptCuts(p) ==
    {b \in Cuts(p) \ {Len(p) + 1} : SegmentAfter(p, b) \notin {<<>>, <<".">>}}

\* The k-th kept segment of p.
KeptSegment(p, k) ==
    SegmentAfter(p, CHOOSE b \in KeptCuts(p) :
                       Cardinality({c \in KeptCuts(p) : c < b}) = k - 1)

MustFail(p) ==
    \/ p # <<>> /\ p[1] = "/"
    \/ \E b \in Cuts(p) \ {Len(p) + 1} : SegmentAfter(p, b) = <<".", ".">>
    \/ KeptCuts(p) = {}
    \/ Cardinality(KeptCuts(p)) = 1 /\ KeptSegment(p, 1) = <<"__main__.py">>

\* C30: validating a path string fails exactly when it is absolute, has a
\* ".." segment, has no segment left once the empty and "." segments are
\* discarded, or is then "__main__.py"; otherwise it returns the remaining
\* segments in their order, and validating the returned path returns it
\* unchanged.
C30_PathValidator ==
    /\ validated.pc = "done" =>
          /\ validated.ok <=> ~MustFail(input_path)
          /\ validated.ok =>
                /\ Len(validated.path) = Cardinality(KeptCuts(input_path))
                /\ \A k \in 1..Len(validated.path) :
                      validated.path[k] = KeptSegment(input_path, k)
    /\ revalidated.pc = "done" =>
          revalidated.ok /\ revalidated.path = validated.path

C30_Witness ==
    /\ revalidated.pc = "done"
    /\ Len(validated.path) = 2
    /\ validated.path[1] # validated.path[2]
    /\ Len(input_path) > Len(as_posix(validated.path))

\* The supervise loop takes a terminal status from the error channel.
TerminalStatusStep ==
    /\ pc = "supervise" /\ streamOpen /\ clock < deadline
    /\ StatusBreaks(errChan)
    /\ pc' = "snapshot"

\* C31: when the exec error channel delivers a terminal status during
\* supervision, exit_code is 0 for Success, the reported code for
\* NonZeroExitCode with an exit code, and 1 for every other terminal status.
C31_ExitStatusMapping ==
    [][TerminalStatusStep =>
          exit_code' = CASE errChan = "Success" -> 0
                         [] errChan = "NonZeroExitCode" -> exitStatus
                         [] OTHER -> 1]_vars

\* The readiness wait of the cluster backend is over.
WaitOver ==
    backend = "kubernetes" /\ launch = "ok" /\ pc \notin {"launch", "wait_ready"}

\* C32: the cluster backend reads the pod's phase at most MaxPolls times; it
\* stages only after a read gave Running; when no read gave Running the call
\* ends with an error, nothing is staged or executed, and the pod is deleted.
C32_ReadinessWait ==
    /\ polls <= MaxPolls
    /\ (backend = "kubernetes" /\ (pc = "stage" \/ tar_archive # "none")) =>
          phase = "Running"
    /\ (WaitOver /\ phase # "Running") =>
          /\ tar_archive = "none" /\ workspace = EmptyFn
          /\ progState = "none"
          /\ pending # "none" \/ outcome.kind = "raised"
          /\ CallEnded => container_name \in released

C32_Witness ==
    /\ WaitOver /\ pc = "done"
    /\ polls = MaxPolls /\ phase = "Pending"
    /\ outcome.kind = "raised" /\ outcome.error = "RuntimeError"
    /\ container_name \in released

\* The member at position j lies under the directory path d.
Under(d, j) ==
    /\ Len(archive[j].path) > Len(d)
    /\ SubSeq(archive[j].path, 1, Len(d)) = d

\* The positions of the staged files among the members, in order.
FilePositions ==
    {j \in 2..Len(archive) : archive[j].type = "file"}

\* C33: the archive of either backend begins with the entrypoint __main__.py,
\* lists the staged files in request order, holds each parent directory at
\* most once, and holds every directory, parents first, before any member
\* under it.
C33_MemberOrder ==
    archive # <<>> =>
        /\ archive[1].type = "file" /\ archive[1].path = <<EntryPoint>>
        /\ Cardinality(FilePositions) = Len(staged_files)
        /\ \A j \in FilePositions :
              LET k == Cardinality({i \in FilePositions : i <= j})
              IN  /\ archive[j].path = parts(staged_files[k][1])
                  /\ archive[j].content = staged_files[k][2]
        /\ \A i, j \in 1..Len(archive) :
              (archive[i].type = "dir" /\ archive[j].type = "dir"
               /\ archive[i].path = archive[j].path) => i = j
        /\ \A j \in 2..Len(archive) : \A n \in 1..(Len(archive[j].path) - 1) :
              \E i \in 1..(j - 1) :
                 /\ archive[i].type = "dir"
                 /\ archive[i].path = SubSeq(archive[j].path, 1, n)
        /\ \A i, j \in 1..Len(archive) :
              (archive[i].type = "dir" /\ Under(archive[i].path, j)) => i < j

C33_Witness ==
    /\ Len(staged_files) = 2
    /\ \E i, j \in 1..Len(archive) :
          /\ i < j
          /\ archive[i].type = "dir" /\ archive[j].type = "dir"
          /\ Under(archive[i].path, j)
    /\ \E d \in 1..Len(archive) :
          /\ archive[d].type = "dir"
          /\ Cardinality({j \in FilePositions : Under(archive[d].path, j)}) = 2

\* C34: in the archive of either backend every member has uid and gid
\* 65532, a directory has mode 0o755, a file has mode 0o644, and a file's
\* declared size is the length of its content.
C34_OwnershipAndModes ==
    \A i \in 1..Len(archive) :
        /\ archive[i].uid = 65532 /\ archive[i].gid = 65532
        /\ archive[i].type = "dir" => archive[i].mode = 493
        /\ archive[i].type = "file" =>
              /\ archive[i].mode = 420
              /\ archive[i].size = Len(BytesOf(archive[i].content))

\* The bytes of the stream whose decoding has been emitted: those given to
\* the decoder, less the ones it holds back.
Delivered == Min(bytes_sent, tMax) - Len(decoderBuf)

\* C35: for one stream of execute_python_streaming, the chunks emitted so far
\* concatenate to the decoding of a prefix of the bytes the program wrote, in
\* order and with no gap or duplication, up to the output cap; every chunk
\* extends what was emitted before, and after the final flush the prefix is
\* everything read up to the cap.
C35_PerStreamOrdering ==
    /\ [](/\ Delivered \in 0..Len(tStream)
          /\ chunkText = decode_replace(SubSeq(tStream, 1, Delivered))
          /\ flushed => Delivered = Min(bytes_sent, tMax))
    /\ [][/\ Len(chunkText') >= Len(chunkText)
          /\ SubSeq(chunkText', 1, Len(chunkText)) = chunkText
          /\ bytes_sent' >= bytes_sent]_vars

C35_Witness ==
    /\ decoderBuf # <<>> /\ chunkText # <<>>
    /\ bytes_sent < tMax /\ bytes_sent < Len(tStream)
    /\ ~flushed

\* A delete of the old record and a sweep, which covers it, have both ended.
BothRemovalsEnded ==
    /\ delCall.pc = "done" /\ delCall.id = OldId
    /\ sweepCall.pc = "done"

\* C36: when a delete of an existing record and a sweep that covers it
\* interleave, exactly one of them reports the removal (the delete returns
\* true or the sweep counts it) and the delete raises nothing.
C36_RemovalCountedOnce ==
    BothRemovalsEnded =>
        /\ delCall.result = "returned"
        /\ delCall.existed <=> sweepCall.deleted_count = 0

\* C37: an execute request only adds to the File Store: every file of a
\* record uploaded before it is still there with the same bytes and
\* metadata at every step, also when the program rewrote the staged file,
\* and a request answered with an error has added nothing.
C37_ExecuteOnlyAdds ==
    /\ \A n \in DOMAIN UploadedStore : n \in DOMAIN store /\ store[n] = UploadedStore[n]
    /\ (pc = "done" /\ response.status # 200) => store = UploadedStore
    /\ pc # "done" => store = UploadedStore

C37_Witness ==
    /\ pc = "done" /\ response.status = 200
    /\ DOMAIN store # DOMAIN UploadedStore
    /\ \E i \in 1..Len(response.files) :
          /\ response.files[i].path \in DOMAIN input_files_map
          /\ store[response.files[i].file_id].content
                # input_files_map[response.files[i].path]

\* C38: in both backends, once the stdin text has been delivered and the
\* call supervises the running program, end-of-input has been signalled on
\* the program's stdin; so a program that reads its stdin to end-of-input
\* and then exits is never timed out for want of that signal.
C38_EndOfInput ==
    /\ (progState = "running" /\ pc \in SupervisePcs) => stdinEof
    /\ (awaitsEof /\ timed_out) => stdinEof

\* The consumer has closed the generator at a yield of a chunk.
ClosedEarly == pending = "GeneratorExit" \/ outcome.kind = "closed"

\* C39: in a streaming execution the kill of the container has been issued
\* before the terminal summary is yielded; when the consumer closes the
\* generator at a chunk, the call still ends after a kill of the container,
\* and from the close on no further event is produced.
C39_ReleasedBeforeReport ==
    /\ [](mode = "stream" =>
            /\ (pc = "yield_result" \/ Summaries # {}) => container_name \in released
            /\ outcome.kind = "closed" => container_name \in released /\ Summaries = {})
    /\ [][ClosedEarly => events' = events]_vars

\* C39 witness: a streaming call closed at its first chunk has ended, the
\* container killed and the chunk its only event.
C39_Witness ==
    /\ mode = "stream"
    /\ outcome.kind = "closed"
    /\ Len(events) = 1
    /\ container_name \in released

\* C40: after any sequence of completed put, get, delete, list and sweep
\* calls, whatever identifier strings they were called with, the payload
\* file of an identifier exists exactly when its metadata file exists, and
\* that metadata carries the identifier and the payload's length.
C40_PairingInvariant ==
    \A u \in Uuids :
        /\ get_file_path(u) \in DOMAIN store <=> get_metadata_path(u) \in DOMAIN store
        /\ get_file_path(u) \in DOMAIN store =>
              /\ store[get_metadata_path(u)].json.file_id = u
              /\ store[get_metadata_path(u)].json.size_bytes
                    = SizeOf(store[get_file_path(u)].content)

=============================================================================
